---- MODULE Spec2Model ----
(***************************************************************************)
(* hello-go: the token issuer (AuthServer), the token validators (local    *)
(* JWTValidator, remote authClient, substitute mockAuthClient), the        *)
(* authentication gateway of the resource service (UserServer.authenticate *)
(* and the HTTP AuthMiddleware) and the ownership rule of UpdateUser and   *)
(* DeleteUser over the substitute and the live user store.                 *)
(*                                                                         *)
(* Time is counted in ticks; TicksPerSec ticks make one second, so that    *)
(* time.Now() has a finer resolution than the whole seconds of the "exp"   *)
(* and "iat" claims, as in the code.                                       *)
(***************************************************************************)
EXTENDS Integers, Sequences, FiniteSets, TLC

VARIABLES
    now,        \* the wall clock, in ticks
    env,        \* the resource service's process environment
    srv,        \* the UserServer built by NewUserServer
    auth,       \* the AuthServer built by NewAuthServer, with its cfg.Auth
    authUsers,  \* the issuer's credential store: email -> principal
    users,      \* the resource service's store: id -> record
    issued,     \* the token Login handed out last, the principal it was made for
                \* and the time now + JWTExpiration it was configured to expire at
    last        \* the request being answered: its inputs and its outcome

vars == <<now, env, srv, auth, authUsers, users, issued, last>>

----------------------------------------------------------------------------
(* Bounds of the model *)

MaxTime == 4
TicksPerSec == 2

(* Program constants *)

RemoteTimeoutSec == 5

ID1 == "00000000-0000-0000-0000-000000000001"
ID2 == "00000000-0000-0000-0000-000000000002"
ID3 == "00000000-0000-0000-0000-000000000003"
UnknownID == "ffffffff-ffff-ffff-ffff-ffffffffffff"
BypassSentinel == "mock-bypass"
MockClientUser == "mock-user-id"

Secrets == {"k1", "k2"}
JWTExpirations == {1, 3}
Subjects == {ID1, ID2, BypassSentinel}
Emails == {"admin@example.com", "user@example.com", "new@example.com"}
Passwords == {"admin123", "password123"}
Names == {"Renamed"}
MaxExpSec == (MaxTime \div TicksPerSec) + 1

Unix(t) == t \div TicksPerSec

----------------------------------------------------------------------------
(* Tokens.  A token string is empty, the literal "mock-token", some other  *)
(* text that is no JWT, or a JWT: its header's alg, the key its signature  *)
(* was made with, and its claims.                                          *)

Tok(form, alg, key, hasSub, sub, hasExp, exp, iat) ==
    [form |-> form, alg |-> alg, key |-> key, hasSub |-> hasSub, sub |-> sub,
     hasExp |-> hasExp, exp |-> exp, iat |-> iat]

EmptyToken == Tok("empty", "", "", FALSE, "", FALSE, 0, 0)
MockToken == Tok("mock-token", "", "", FALSE, "", FALSE, 0, 0)
Malformed == Tok("malformed", "", "", FALSE, "", FALSE, 0, 0)

JwtTokens ==
    { Tok("jwt", "HS256", k, TRUE, s, TRUE, e, 0) :
        k \in Secrets, s \in Subjects, e \in 0..MaxExpSec }
    \cup { Tok("jwt", "HS256", k, FALSE, "", TRUE, e, 0) : k \in Secrets, e \in 0..MaxExpSec }
    \cup { Tok("jwt", "HS256", k, TRUE, s, FALSE, 0, 0) : k \in Secrets, s \in Subjects }
    \cup { Tok("jwt", "HS256", k, FALSE, "", FALSE, 0, 0) : k \in Secrets }
    \cup { Tok("jwt", "none", k, TRUE, s, TRUE, MaxExpSec, 0) : k \in Secrets, s \in {ID1} }

Tokens == {EmptyToken, MockToken, Malformed} \cup JwtTokens

(* What the claims speak of: the signature of tok verifies under secret,  *)
(* and tok is expired at time t.                                           *)
SignatureVerifies(tok, secret) ==
    tok.form = "jwt" /\ tok.alg = "HS256" /\ tok.key = secret

BeforeExpiry(tok, t) == tok.hasExp /\ t < tok.exp * TicksPerSec

(* jwt.Parse of golang-jwt/v5 with a key function that returns the HMAC    *)
(* secret: the segments are decoded, the key function is asked for the     *)
(* key, the signature is verified with the header's method, and then the   *)
(* registered claims are validated: "exp", when present, must be after     *)
(* time.Now().  checkMethod is the key function's own test of the method.  *)
jwt_Parse(tok, checkMethod, secret, t) ==
    IF tok.form # "jwt" THEN [err |-> "malformed", Valid |-> FALSE]
    ELSE IF checkMethod /\ tok.alg # "HS256" THEN [err |-> "unverifiable", Valid |-> FALSE]
    ELSE IF tok.alg # "HS256" THEN [err |-> "unverifiable", Valid |-> FALSE]
    ELSE IF tok.key # secret THEN [err |-> "signature invalid", Valid |-> FALSE]
    ELSE IF tok.hasExp /\ ~(t < tok.exp * TicksPerSec) THEN [err |-> "expired", Valid |-> FALSE]
    ELSE [err |-> "nil", Valid |-> TRUE]

Outcome(valid, userID, err) == [valid |-> valid, userID |-> userID, err |-> err]

----------------------------------------------------------------------------
(* The issuer: AuthServer *)

(* generateToken with the principal written under another claim than "sub". *)
generateToken_NoSub(userID, t) ==
    Tok("jwt", "HS256", auth.JWTSecret, FALSE, "",
        TRUE, Unix(t + auth.JWTExpiration), Unix(t))

(* generateToken: sub = userID, exp = (now + JWTExpiration).Unix(),        *)
(* iat = now.Unix(), signed HS256 with cfg.Auth.JWTSecret.                 *)
generateToken(userID, t) ==
    Tok("jwt", "HS256", auth.JWTSecret, TRUE, userID,
        TRUE, Unix(t + auth.JWTExpiration), Unix(t))

(* AuthServer.ValidateToken: a gRPC status and, when the status is OK, the *)
(* response {Valid, UserId}.                                               *)
Response(status, valid, userId) == [status |-> status, Valid |-> valid, UserId |-> userId]

(* AuthServer.ValidateToken answering a parse error with an error status. *)
AuthServer_ValidateToken_ErrOnInvalid(tok, t) ==
    IF tok.form = "empty" THEN Response("InvalidArgument", FALSE, "")
    ELSE LET p == jwt_Parse(tok, TRUE, auth.JWTSecret, t) IN
         IF p.err # "nil" THEN Response("Unauthenticated", FALSE, "")
         ELSE IF ~tok.hasSub THEN Response("OK", FALSE, "")
         ELSE Response("OK", TRUE, tok.sub)

(* AuthServer.ValidateToken with a parser that skips the claims' validation. *)
AuthServer_ValidateToken_NoClaimsValidation(tok, t) ==
    IF tok.form = "empty" THEN Response("InvalidArgument", FALSE, "")
    ELSE IF ~SignatureVerifies(tok, auth.JWTSecret) THEN Response("OK", FALSE, "")
    ELSE IF ~tok.hasSub THEN Response("OK", FALSE, "")
    ELSE Response("OK", TRUE, tok.sub)

(* AuthServer.ValidateToken looking the subject up in the credential store. *)
AuthServer_ValidateToken_LooksUpSubject(tok, t) ==
    IF tok.form = "empty" THEN Response("InvalidArgument", FALSE, "")
    ELSE LET p == jwt_Parse(tok, TRUE, auth.JWTSecret, t) IN
         IF p.err # "nil" THEN Response("OK", FALSE, "")
         ELSE IF ~tok.hasSub THEN Response("OK", FALSE, "")
         ELSE IF ~(\E e \in DOMAIN authUsers : authUsers[e].ID = tok.sub)
         THEN Response("OK", FALSE, "")
         ELSE Response("OK", TRUE, tok.sub)

AuthServer_ValidateToken(tok, t) ==
    IF tok.form = "empty" THEN Response("InvalidArgument", FALSE, "")
    ELSE LET p == jwt_Parse(tok, TRUE, auth.JWTSecret, t) IN
         IF p.err # "nil" THEN Response("OK", FALSE, "")
         ELSE IF ~p.Valid THEN Response("OK", FALSE, "")
         ELSE IF ~tok.hasSub THEN Response("OK", FALSE, "")
         ELSE Response("OK", TRUE, tok.sub)

----------------------------------------------------------------------------
(* The validators of the resource service *)

(* JWTValidator.ValidateToken reading the claims without verifying the    *)
(* signature.                                                              *)
JWTValidator_ValidateToken_Unverified(tok, t) ==
    IF tok.form = "empty" THEN Outcome(FALSE, "", "nil")
    ELSE LET p == jwt_Parse(tok, TRUE, tok.key, t) IN
         IF p.err # "nil" THEN Outcome(FALSE, "", "nil")
         ELSE IF ~tok.hasSub THEN Outcome(FALSE, "", "nil")
         ELSE Outcome(TRUE, tok.sub, "nil")

(* JWTValidator.ValidateToken: the local validator, secret from its cfg. *)
JWTValidator_ValidateToken(tok, t) ==
    IF tok.form = "empty" THEN Outcome(FALSE, "", "nil")
    ELSE LET p == jwt_Parse(tok, TRUE, srv.JWTSecret, t) IN
         IF p.err # "nil" THEN Outcome(FALSE, "", "nil")
         ELSE IF ~p.Valid THEN Outcome(FALSE, "", "nil")
         ELSE IF ~tok.hasSub THEN Outcome(FALSE, "", "nil")
         ELSE Outcome(TRUE, tok.sub, "nil")

(* The fate of one remote call: how long the answer takes, in seconds, and *)
(* whether the transport delivers it.                                      *)
Latencies == {0, RemoteTimeoutSec - 1, RemoteTimeoutSec + 1}
RpcFates ==
    { [latency |-> l, transport |-> "ok"] : l \in Latencies }
    \cup { [latency |-> 0, transport |-> "unavailable"] }
RpcFine == [latency |-> 0, transport |-> "ok"]

RpcCompletes(rpc) == rpc.transport = "ok" /\ rpc.latency < RemoteTimeoutSec

(* authClient.ValidateToken reporting a call that failed as an invalid     *)
(* token.                                                                  *)
authClient_ValidateToken_SwallowFailure(tok, t, rpc) ==
    LET res == AuthServer_ValidateToken(tok, t)
        failed == ~RpcCompletes(rpc) \/ res.status # "OK"
    IN  IF failed
        THEN [valid |-> FALSE, userID |-> "", err |-> "nil", calls |-> 1]
        ELSE [valid |-> res.Valid, userID |-> res.UserId, err |-> "nil", calls |-> 1]

(* authClient.ValidateToken: one call of the issuer's ValidateToken under a *)
(* context with a 5 second timeout; calls counts the calls it makes.        *)
authClient_ValidateToken(tok, t, rpc) ==
    LET res == AuthServer_ValidateToken(tok, t)
        failed == ~RpcCompletes(rpc) \/ res.status # "OK"
    IN  IF failed
        THEN [valid |-> FALSE, userID |-> "", err |-> "failed to validate token", calls |-> 1]
        ELSE [valid |-> res.Valid, userID |-> res.UserId, err |-> "nil", calls |-> 1]

(* mockAuthClient.ValidateToken: the substitute client; bypass is what     *)
(* os.Getenv("BYPASS_AUTH") == "true" gives at the time of the call.       *)
mockAuthClient_ValidateToken(tok, t, bypass) ==
    IF bypass THEN Outcome(TRUE, MockClientUser, "nil")
    ELSE IF tok.form = "empty" THEN Outcome(FALSE, "", "nil")
    ELSE LET p == jwt_Parse(tok, FALSE, srv.JWTSecret, t) IN
         IF p.err # "nil" THEN Outcome(FALSE, "", "nil")
         ELSE IF ~p.Valid THEN Outcome(FALSE, "", "nil")
         ELSE IF tok.form = "mock-token" THEN Outcome(TRUE, MockClientUser, "nil")
         ELSE IF ~tok.hasSub THEN Outcome(FALSE, "", "nil")
         ELSE IF tok.hasExp /\ tok.exp * TicksPerSec < t THEN Outcome(FALSE, "", "nil")
         ELSE Outcome(TRUE, tok.sub, "nil")

----------------------------------------------------------------------------
(* The authentication gateway *)

(* The value of the authorization metadata / Authorization header: absent, *)
(* or the text of a token, with or without the "Bearer " prefix.           *)
Absent == [present |-> FALSE, bearer |-> FALSE, tok |-> EmptyToken]
Hdr(bearer, tok) == [present |-> TRUE, bearer |-> bearer, tok |-> tok]

(* token := values[0]; the prefix is removed only when len(token) > 7, so  *)
(* the bare text "Bearer " stays as it is: a text that is no JWT.          *)
StripBearer(h) == IF h.bearer /\ h.tok.form = "empty" THEN Malformed ELSE h.tok

(* strings.TrimPrefix(authHeader, "Bearer ") *)
TrimPrefix(h) == h.tok

NoOutcome == [valid |-> FALSE, userID |-> "", err |-> "nil", calls |-> 0]
Local(o) == [valid |-> o.valid, userID |-> o.userID, err |-> o.err, calls |-> 0]

(* A validator behind the AuthTokenValidator / AuthClient interface: the   *)
(* remote client ("grpc"), the substitute client ("mock"), or the local    *)
(* JWTValidator ("nil": no client).                                        *)
ValidateToken(kind, tok, t, rpc) ==
    CASE kind = "grpc" -> authClient_ValidateToken(tok, t, rpc)
      [] kind = "mock" -> Local(mockAuthClient_ValidateToken(tok, t, env.BYPASS_AUTH))
      [] OTHER -> Local(JWTValidator_ValidateToken(tok, t))

(* The validator NewUserServer wired: s.authClient when it is not nil,     *)
(* else s.jwtValidator.                                                    *)
ActiveValidator(tok, t, rpc) == ValidateToken(srv.authClient, tok, t, rpc)

Gate(code, userID, invoked, v) ==
    [code |-> code, userID |-> userID, invoked |-> invoked, v |-> v]

(* UserServer.authenticate answering a validator error as Unauthenticated. *)
UserServer_authenticate_ErrAsUnauthenticated(h, t, rpc) ==
    IF ~h.present THEN Gate("Unauthenticated", "", FALSE, NoOutcome)
    ELSE LET v == ActiveValidator(StripBearer(h), t, rpc) IN
         IF v.err # "nil" \/ ~v.valid THEN Gate("Unauthenticated", "", TRUE, v)
         ELSE Gate("OK", v.userID, TRUE, v)

(* UserServer.authenticate *)
UserServer_authenticate(h, t, rpc) ==
    IF ~h.present THEN Gate("Unauthenticated", "", FALSE, NoOutcome)
    ELSE LET v == ActiveValidator(StripBearer(h), t, rpc) IN
         IF v.err # "nil" THEN Gate("Internal", "", TRUE, v)
         ELSE IF ~v.valid THEN Gate("Unauthenticated", "", TRUE, v)
         ELSE Gate("OK", v.userID, TRUE, v)

(* UserServer.authenticateOrBypass that never takes the bypass. *)
UserServer_authenticateOrBypass_NeverBypass(h, t, rpc) ==
    UserServer_authenticate(h, t, rpc)

(* UserServer.authenticateOrBypass that takes the bypass in substitute     *)
(* mode without looking at BYPASS_AUTH.                                    *)
UserServer_authenticateOrBypass_MockBypasses(h, t, rpc) ==
    IF srv.useMockMode
    THEN Gate("OK", BypassSentinel, FALSE, NoOutcome)
    ELSE UserServer_authenticate(h, t, rpc)

(* UserServer.authenticateOrBypass *)
UserServer_authenticateOrBypass(h, t, rpc) ==
    IF srv.useMockMode /\ env.BYPASS_AUTH
    THEN Gate("OK", BypassSentinel, FALSE, NoOutcome)
    ELSE UserServer_authenticate(h, t, rpc)

(* AuthMiddleware(validator): the HTTP status it answers with, or, when   *)
(* it calls the next handler, the userID it puts in the request context.   *)
Http(status, userID, invoked, next, v) ==
    [status |-> status, userID |-> userID, invoked |-> invoked, next |-> next, v |-> v]

AuthMiddleware(kind, h, t, rpc) ==
    IF ~h.present \/ (~h.bearer /\ h.tok.form = "empty")
    THEN Http(401, "", FALSE, FALSE, NoOutcome)
    ELSE LET v == ValidateToken(kind, TrimPrefix(h), t, rpc) IN
         IF v.err # "nil" THEN Http(500, "", TRUE, FALSE, v)
         ELSE IF ~v.valid THEN Http(401, "", TRUE, FALSE, v)
         ELSE Http(200, v.userID, TRUE, TRUE, v)

----------------------------------------------------------------------------
(* The issuer's credential store and Login *)

(* A stored password: the text itself in the substitute service, its       *)
(* bcrypt hash in the live repository.                                     *)
Plain(p) == [hashed |-> FALSE, of |-> p]
Hashed(p) == [hashed |-> TRUE, of |-> p]

ErrInvalidCredentials == "invalid credentials"
ErrDatabase == "database error"

DbFates == {"ok", "read_fails", "write_fails"}

(* mockAuthService.Authenticate telling an unknown email from a wrong      *)
(* password.                                                               *)
mockAuthService_Authenticate_TellsUnknown(email, password) ==
    IF email \notin DOMAIN authUsers THEN [userID |-> "", err |-> "user not found"]
    ELSE IF authUsers[email].Password # Plain(password)
    THEN [userID |-> "", err |-> ErrInvalidCredentials]
    ELSE [userID |-> authUsers[email].ID, err |-> "nil"]

(* mockAuthService.Authenticate *)
mockAuthService_Authenticate(email, password) ==
    IF email \notin DOMAIN authUsers THEN [userID |-> "", err |-> ErrInvalidCredentials]
    ELSE IF authUsers[email].Password # Plain(password)
    THEN [userID |-> "", err |-> ErrInvalidCredentials]
    ELSE [userID |-> authUsers[email].ID, err |-> "nil"]

(* authService.Authenticate over authRepository.GetUserByEmail and         *)
(* CheckPassword (bcrypt.CompareHashAndPassword).                          *)
authService_Authenticate(email, password, db) ==
    IF db = "read_fails" \/ email \notin DOMAIN authUsers
    THEN [userID |-> "", err |-> ErrInvalidCredentials]
    ELSE IF authUsers[email].Password # Hashed(password)
    THEN [userID |-> "", err |-> ErrInvalidCredentials]
    ELSE [userID |-> authUsers[email].ID, err |-> "nil"]

(* AuthServer.Login: the gRPC status with its message, the response, and   *)
(* the error s.service.Authenticate returned.                              *)
LoginResult(status, msg, token, userId, err) ==
    [status |-> status, msg |-> msg, Token |-> token, UserId |-> userId, err |-> err]

AuthServer_Login(email, password, t, db) ==
    IF email = "" \/ password = ""
    THEN LoginResult("InvalidArgument", "email and password are required", EmptyToken, "", "nil")
    ELSE LET a == IF auth.useMock THEN mockAuthService_Authenticate(email, password)
                  ELSE authService_Authenticate(email, password, db)
         IN  IF a.err # "nil"
             THEN LoginResult("Unauthenticated", "invalid credentials", EmptyToken, "", a.err)
             ELSE LoginResult("OK", "", generateToken(a.userID, t), a.userID, "nil")

----------------------------------------------------------------------------
(* Register *)

ErrAuthUserAlreadyExists == "user already exists"

Lower == {"a", "b", "c", "d", "e", "f", "g", "h", "i", "j", "k", "l", "m",
          "n", "o", "p", "q", "r", "s", "t", "u", "v", "w", "x", "y", "z"}
Upper == {"A", "B", "C", "D", "E", "F", "G", "H", "I", "J", "K", "L", "M",
          "N", "O", "P", "Q", "R", "S", "T", "U", "V", "W", "X", "Y", "Z"}
Digits == {"0", "1", "2", "3", "4", "5", "6", "7", "8", "9"}

(* ^[a-zA-Z0-9._%+\-]+@[a-zA-Z0-9.\-]+\.[a-zA-Z]{2,}$ *)
emailRegex_MatchString(email) ==
    LET c == [i \in 1..Len(email) |-> SubSeq(email, i, i)]
        local == Lower \cup Upper \cup Digits \cup {".", "_", "%", "+", "-"}
        domain == Lower \cup Upper \cup Digits \cup {".", "-"}
    IN  \E a \in 2..Len(email) : \E d \in (a + 2)..(Len(email) - 2) :
           /\ c[a] = "@"
           /\ c[d] = "."
           /\ \A i \in 1..(a - 1) : c[i] \in local
           /\ \A i \in (a + 1)..(d - 1) : c[i] \in domain
           /\ \A i \in (d + 1)..Len(email) : c[i] \in Lower \cup Upper

(* strings.ReplaceAll(email, "@", "-at-") *)
RECURSIVE ReplaceAll_At(_)
ReplaceAll_At(str) ==
    IF str = "" THEN ""
    ELSE (IF SubSeq(str, 1, 1) = "@" THEN "-at-" ELSE SubSeq(str, 1, 1))
         \o ReplaceAll_At(SubSeq(str, 2, Len(str)))

RegisterResult(userID, err, store) == [userID |-> userID, err |-> err, authUsers |-> store]

Extended(store, email, principal) ==
    [e \in DOMAIN store \cup {email} |-> IF e = email THEN principal ELSE store[e]]

(* mockAuthService.Register that writes the record before it looks for an  *)
(* existing one.                                                           *)
mockAuthService_Register_Overwrites(email, password, name) ==
    IF ~emailRegex_MatchString(email) THEN RegisterResult("", ErrInvalidCredentials, authUsers)
    ELSE IF Len(password) < 6 THEN RegisterResult("", ErrInvalidCredentials, authUsers)
    ELSE LET userID == "mock-" \o ReplaceAll_At(email)
             store == Extended(authUsers, email,
                               [ID |-> userID, Password |-> Plain(password), Name |-> name])
         IN  IF email \in DOMAIN authUsers
             THEN RegisterResult("", ErrAuthUserAlreadyExists, store)
             ELSE RegisterResult(userID, "nil", store)

(* mockAuthService.Register *)
mockAuthService_Register(email, password, name) ==
    IF ~emailRegex_MatchString(email) THEN RegisterResult("", ErrInvalidCredentials, authUsers)
    ELSE IF email \in DOMAIN authUsers
    THEN RegisterResult("", ErrAuthUserAlreadyExists, authUsers)
    ELSE IF Len(password) < 6 THEN RegisterResult("", ErrInvalidCredentials, authUsers)
    ELSE LET userID == "mock-" \o ReplaceAll_At(email)
         IN  RegisterResult(userID, "nil",
                 Extended(authUsers, email,
                          [ID |-> userID, Password |-> Plain(password), Name |-> name]))

(* authService.Register over authRepository.UserExists and CreateUser:     *)
(* uuid is what uuid.New() gives; the primary key and the unique index on  *)
(* email are the table's.                                                  *)
authService_Register(email, password, name, db, uuid) ==
    IF db = "read_fails" THEN RegisterResult("", ErrDatabase, authUsers)
    ELSE IF email \in DOMAIN authUsers
    THEN RegisterResult("", ErrAuthUserAlreadyExists, authUsers)
    ELSE IF db = "write_fails" \/ (\E e \in DOMAIN authUsers : authUsers[e].ID = uuid)
    THEN RegisterResult("", ErrDatabase, authUsers)
    ELSE RegisterResult(uuid, "nil",
             Extended(authUsers, email,
                      [ID |-> uuid, Password |-> Hashed(password), Name |-> name]))

(* The status AuthServer.Register makes of its service's error. *)
RegisterStatus(err) ==
    IF err = ErrAuthUserAlreadyExists THEN "AlreadyExists"
    ELSE IF err # "nil" THEN "Internal" ELSE "OK"

(* AuthServer.Register *)
AuthServer_Register(email, password, name, db, uuid) ==
    IF email = "" \/ password = "" \/ name = ""
    THEN [status |-> "InvalidArgument", UserId |-> "", err |-> "nil", authUsers |-> authUsers]
    ELSE LET r == IF auth.useMock THEN mockAuthService_Register(email, password, name)
                  ELSE authService_Register(email, password, name, db, uuid)
         IN  IF r.err = ErrAuthUserAlreadyExists
             THEN [status |-> "AlreadyExists", UserId |-> "", err |-> r.err,
                   authUsers |-> r.authUsers]
             ELSE IF r.err # "nil"
             THEN [status |-> "Internal", UserId |-> "", err |-> r.err,
                   authUsers |-> r.authUsers]
             ELSE [status |-> "OK", UserId |-> r.userID, err |-> "nil",
                   authUsers |-> r.authUsers]

----------------------------------------------------------------------------
(* The resource service's store: the substitute map and the live table *)

User(id, email, name, created, updated) ==
    [ID |-> id, Email |-> email, Name |-> name, CreatedAt |-> created, UpdatedAt |-> updated]
NoUser == User("", "", "", 0, 0)

ErrUserNotFound == "user not found"
(* var ErrUserAlreadyExists = ErrUserNotFound *)
ErrUserAlreadyExists == ErrUserNotFound

StoreResult(err, us, u) == [err |-> err, users |-> us, user |-> u]

(* mockUserService.UpdateUser assigning user.Name before it looks for the   *)
(* email among the other records.                                          *)
mockUserService_UpdateUser_WritesFirst(id, name, email, t) ==
    IF id \notin DOMAIN users THEN StoreResult(ErrUserNotFound, users, NoUser)
    ELSE LET named == [users EXCEPT ![id].Name = name] IN
         IF \E u \in DOMAIN users : users[u].Email = email /\ users[u].ID # id
         THEN StoreResult(ErrUserAlreadyExists, named, NoUser)
         ELSE LET u == [named[id] EXCEPT !.Email = email, !.UpdatedAt = t]
              IN  StoreResult("nil", [users EXCEPT ![id] = u], u)

(* mockUserService.UpdateUser *)
mockUserService_UpdateUser(id, name, email, t) ==
    IF id \notin DOMAIN users THEN StoreResult(ErrUserNotFound, users, NoUser)
    ELSE IF \E u \in DOMAIN users : users[u].Email = email /\ users[u].ID # id
    THEN StoreResult(ErrUserAlreadyExists, users, NoUser)
    ELSE LET u == [users[id] EXCEPT !.Name = name, !.Email = email, !.UpdatedAt = t]
         IN  StoreResult("nil", [users EXCEPT ![id] = u], u)

(* mockUserService.DeleteUser *)
mockUserService_DeleteUser(id) ==
    IF id \notin DOMAIN users THEN StoreResult(ErrUserNotFound, users, NoUser)
    ELSE StoreResult("nil", [u \in DOMAIN users \ {id} |-> users[u]], NoUser)

(* mockUserService.GetUser *)
mockUserService_GetUser(id) ==
    IF id \notin DOMAIN users THEN StoreResult(ErrUserNotFound, users, NoUser)
    ELSE StoreResult("nil", users, users[id])

(* userRepository.GetUserByID, as userService.GetUser passes it on *)
userService_GetUser(id, db) ==
    IF db = "read_fails" THEN StoreResult(ErrDatabase, users, NoUser)
    ELSE IF id \notin DOMAIN users THEN StoreResult(ErrUserNotFound, users, NoUser)
    ELSE StoreResult("nil", users, users[id])

(* userRepository.UpdateUser, as userService.UpdateUser passes it on:      *)
(* GetUserByID, then Save, which the unique index on email can refuse.     *)
userService_UpdateUser(id, name, email, t, db) ==
    IF db = "read_fails" THEN StoreResult(ErrDatabase, users, NoUser)
    ELSE IF id \notin DOMAIN users THEN StoreResult(ErrUserNotFound, users, NoUser)
    ELSE IF db = "write_fails" THEN StoreResult(ErrDatabase, users, NoUser)
    ELSE IF \E u \in DOMAIN users : users[u].Email = email /\ u # id
    THEN StoreResult(ErrDatabase, users, NoUser)
    ELSE LET u == [users[id] EXCEPT !.Name = name, !.Email = email, !.UpdatedAt = t]
         IN  StoreResult("nil", [users EXCEPT ![id] = u], u)

(* userRepository.DeleteUser, as userService.DeleteUser passes it on:      *)
(* GetUserByID, then Delete.                                               *)
userService_DeleteUser(id, db) ==
    IF db = "read_fails" THEN StoreResult(ErrDatabase, users, NoUser)
    ELSE IF id \notin DOMAIN users THEN StoreResult(ErrUserNotFound, users, NoUser)
    ELSE IF db = "write_fails" THEN StoreResult(ErrDatabase, users, NoUser)
    ELSE StoreResult("nil", [u \in DOMAIN users \ {id} |-> users[u]], NoUser)

(* The page size without its upper limit. *)
PageSizeOf_NoUpperLimit(pageSize) == IF pageSize < 1 THEN 10 ELSE pageSize

(* page < 1 -> 1; pageSize < 1 or > 100 -> 10 *)
PageOf(page) == IF page < 1 THEN 1 ELSE page
PageSizeOf(pageSize) == IF pageSize < 1 \/ pageSize > 100 THEN 10 ELSE pageSize

ListResult(err, list, total) == [err |-> err, list |-> list, total |-> total]

(* The records of the store in the order in which order names their ids. *)
InOrder(order) ==
    LET present == SelectSeq(order, LAMBDA id : id \in DOMAIN users)
    IN  [i \in 1..Len(present) |-> users[present[i]]]

(* mockUserService.ListUsers: the map is ranged over in the order the      *)
(* runtime picks (order), and the page is cut out of that.                 *)
mockUserService_ListUsers(page, pageSize, order) ==
    LET allUsers == InOrder(order)
        total == Len(allUsers)
        start == (PageOf(page) - 1) * PageSizeOf(pageSize)
        end == IF start + PageSizeOf(pageSize) > total THEN total
               ELSE start + PageSizeOf(pageSize)
    IN  IF start >= total THEN ListResult("nil", <<>>, total)
        ELSE ListResult("nil", SubSeq(allUsers, start + 1, end), total)

(* ORDER BY created_at DESC: rows with one created_at come in the order    *)
(* the database picks (order).                                             *)
RECURSIVE ByCreatedAtDesc(_)
ByCreatedAtDesc(rows) ==
    IF rows = <<>> THEN <<>>
    ELSE LET newest == CHOOSE i \in 1..Len(rows) :
                          /\ \A j \in 1..Len(rows) : rows[j].CreatedAt <= rows[i].CreatedAt
                          /\ \A j \in 1..(i - 1) : rows[j].CreatedAt < rows[i].CreatedAt
         IN  <<rows[newest]>>
             \o ByCreatedAtDesc(SubSeq(rows, 1, newest - 1) \o SubSeq(rows, newest + 1, Len(rows)))

(* userService.ListUsers over a repository that counts its pages from 0. *)
userService_ListUsers_PageFromZero(page, pageSize, order, db) ==
    IF db # "ok" THEN ListResult(ErrDatabase, <<>>, 0)
    ELSE LET rows == ByCreatedAtDesc(InOrder(order))
             total == Len(rows)
             offset == PageOf(page) * PageSizeOf(pageSize)
             end == IF offset + PageSizeOf(pageSize) > total THEN total
                    ELSE offset + PageSizeOf(pageSize)
         IN  ListResult("nil", SubSeq(rows, offset + 1, end), total)

(* userRepository.ListUsers, as userService.ListUsers passes it on: Count, *)
(* then Order, Offset, Limit, Find.                                        *)
userService_ListUsers(page, pageSize, order, db) ==
    IF db # "ok" THEN ListResult(ErrDatabase, <<>>, 0)
    ELSE LET rows == ByCreatedAtDesc(InOrder(order))
             total == Len(rows)
             offset == (PageOf(page) - 1) * PageSizeOf(pageSize)
             end == IF offset + PageSizeOf(pageSize) > total THEN total
                    ELSE offset + PageSizeOf(pageSize)
         IN  ListResult("nil", SubSeq(rows, offset + 1, end), total)

----------------------------------------------------------------------------
(* The resource service's handlers *)

(* A handler's answer: the status, what the gateway found, whether the     *)
(* service (the store) was called and what the call left and gave.         *)
Reply(code, g, us, u) ==
    [code |-> code, gate |-> g, called |-> TRUE, users |-> us, user |-> u,
     list |-> <<>>, total |-> 0]
Rejected(code, g) ==
    [code |-> code, gate |-> g, called |-> FALSE, users |-> users, user |-> NoUser,
     list |-> <<>>, total |-> 0]
Listed(code, g, list, total) ==
    [code |-> code, gate |-> g, called |-> TRUE, users |-> users, user |-> NoUser,
     list |-> list, total |-> total]

(* err == service.ErrUserNotFound ? NotFound : Internal *)
StatusOf(err) == IF err = ErrUserNotFound THEN "NotFound" ELSE "Internal"

(* UserServer.GetUser with the ownership test of the mutations. *)
UserServer_GetUser_OwnerOnly(h, id, t, rpc, db) ==
    LET g == UserServer_authenticateOrBypass(h, t, rpc) IN
    IF g.code # "OK" THEN Rejected(g.code, g)
    ELSE IF g.userID # id /\ g.userID # "mock-bypass"
    THEN Rejected("PermissionDenied", g)
    ELSE LET r == IF srv.service = "mock" THEN mockUserService_GetUser(id)
                  ELSE userService_GetUser(id, db)
         IN  IF r.err # "nil" THEN Reply(StatusOf(r.err), g, r.users, NoUser)
             ELSE Reply("OK", g, r.users, r.user)

(* UserServer.GetUser *)
UserServer_GetUser(h, id, t, rpc, db) ==
    LET g == UserServer_authenticateOrBypass(h, t, rpc) IN
    IF g.code # "OK" THEN Rejected(g.code, g)
    ELSE LET r == IF srv.service = "mock" THEN mockUserService_GetUser(id)
                  ELSE userService_GetUser(id, db)
         IN  IF r.err # "nil" THEN Reply(StatusOf(r.err), g, r.users, NoUser)
             ELSE Reply("OK", g, r.users, r.user)

(* UserServer.UpdateUser without the ownership test. *)
UserServer_UpdateUser_NoOwnership(h, id, name, email, t, rpc, db) ==
    LET g == UserServer_authenticateOrBypass(h, t, rpc) IN
    IF g.code # "OK" THEN Rejected(g.code, g)
    ELSE LET r == IF srv.service = "mock" THEN mockUserService_UpdateUser(id, name, email, t)
                  ELSE userService_UpdateUser(id, name, email, t, db)
         IN  IF r.err # "nil" THEN Reply(StatusOf(r.err), g, r.users, NoUser)
             ELSE Reply("OK", g, r.users, r.user)

(* UserServer.UpdateUser looking for the record before its ownership test. *)
UserServer_UpdateUser_ExistenceFirst(h, id, name, email, t, rpc, db) ==
    LET g == UserServer_authenticateOrBypass(h, t, rpc) IN
    IF g.code # "OK" THEN Rejected(g.code, g)
    ELSE IF id \notin DOMAIN users THEN Reply("NotFound", g, users, NoUser)
    ELSE IF g.userID # id /\ g.userID # "mock-bypass"
    THEN Rejected("PermissionDenied", g)
    ELSE LET r == IF srv.service = "mock" THEN mockUserService_UpdateUser(id, name, email, t)
                  ELSE userService_UpdateUser(id, name, email, t, db)
         IN  IF r.err # "nil" THEN Reply(StatusOf(r.err), g, r.users, NoUser)
             ELSE Reply("OK", g, r.users, r.user)

(* UserServer.UpdateUser *)
UserServer_UpdateUser(h, id, name, email, t, rpc, db) ==
    LET g == UserServer_authenticateOrBypass(h, t, rpc) IN
    IF g.code # "OK" THEN Rejected(g.code, g)
    ELSE IF g.userID # id /\ g.userID # "mock-bypass"
    THEN Rejected("PermissionDenied", g)
    ELSE LET r == IF srv.service = "mock" THEN mockUserService_UpdateUser(id, name, email, t)
                  ELSE userService_UpdateUser(id, name, email, t, db)
         IN  IF r.err # "nil" THEN Reply(StatusOf(r.err), g, r.users, NoUser)
             ELSE Reply("OK", g, r.users, r.user)

(* UserServer.DeleteUser without the ownership test. *)
UserServer_DeleteUser_NoOwnership(h, id, t, rpc, db) ==
    LET g == UserServer_authenticateOrBypass(h, t, rpc) IN
    IF g.code # "OK" THEN Rejected(g.code, g)
    ELSE LET r == IF srv.service = "mock" THEN mockUserService_DeleteUser(id)
                  ELSE userService_DeleteUser(id, db)
         IN  IF r.err # "nil" THEN Reply(StatusOf(r.err), g, r.users, NoUser)
             ELSE Reply("OK", g, r.users, NoUser)

(* UserServer.DeleteUser making its ownership test after the deletion. *)
UserServer_DeleteUser_TestsAfterwards(h, id, t, rpc, db) ==
    LET g == UserServer_authenticateOrBypass(h, t, rpc) IN
    IF g.code # "OK" THEN Rejected(g.code, g)
    ELSE LET r == IF srv.service = "mock" THEN mockUserService_DeleteUser(id)
                  ELSE userService_DeleteUser(id, db)
         IN  IF g.userID # id /\ g.userID # "mock-bypass"
             THEN Reply("PermissionDenied", g, r.users, NoUser)
             ELSE IF r.err # "nil" THEN Reply(StatusOf(r.err), g, r.users, NoUser)
             ELSE Reply("OK", g, r.users, NoUser)

(* UserServer.DeleteUser *)
UserServer_DeleteUser(h, id, t, rpc, db) ==
    LET g == UserServer_authenticateOrBypass(h, t, rpc) IN
    IF g.code # "OK" THEN Rejected(g.code, g)
    ELSE IF g.userID # id /\ g.userID # "mock-bypass"
    THEN Rejected("PermissionDenied", g)
    ELSE LET r == IF srv.service = "mock" THEN mockUserService_DeleteUser(id)
                  ELSE userService_DeleteUser(id, db)
         IN  IF r.err # "nil" THEN Reply(StatusOf(r.err), g, r.users, NoUser)
             ELSE Reply("OK", g, r.users, NoUser)

(* UserServer.ListUsers *)
UserServer_ListUsers(h, page, pageSize, order, t, rpc, db) ==
    LET g == UserServer_authenticateOrBypass(h, t, rpc) IN
    IF g.code # "OK" THEN Rejected(g.code, g)
    ELSE LET r == IF srv.service = "mock" THEN mockUserService_ListUsers(page, pageSize, order)
                  ELSE userService_ListUsers(page, pageSize, order, db)
         IN  IF r.err # "nil" THEN Listed("Internal", g, <<>>, 0)
             ELSE Listed("OK", g, r.list, r.total)

----------------------------------------------------------------------------
(* Construction *)

(* NewAuthClient: the substitute client under USE_MOCK_SERVICES, else the  *)
(* gRPC client.                                                            *)
NewAuthClient(e) == IF e.USE_MOCK_SERVICES THEN "mock" ELSE "grpc"

(* NewUserServer *)
NewUserServer(e, secret) ==
    [useMockMode |-> e.USE_MOCK_SERVICES,
     authClient  |-> IF ~(e.USE_MOCK_SERVICES /\ e.BYPASS_AUTH) THEN NewAuthClient(e) ELSE "nil",
     service     |-> IF e.USE_MOCK_SERVICES THEN "mock" ELSE "live",
     JWTSecret   |-> secret]

(* NewMockAuthService's users *)
NewMockAuthService ==
    [e \in {"admin@example.com", "user@example.com", "test@example.com"} |->
        CASE e = "admin@example.com" ->
               [ID |-> ID1, Password |-> Plain("admin123"), Name |-> "Admin User"]
          [] e = "user@example.com" ->
               [ID |-> ID2, Password |-> Plain("password123"), Name |-> "Regular User"]
          [] OTHER ->
               [ID |-> ID3, Password |-> Plain("test123"), Name |-> "Test User"]]

(* string(rune('0'+i)), i in 0..20 *)
Rune(i) ==
    <<"0", "1", "2", "3", "4", "5", "6", "7", "8", "9", ":", ";", "<", "=", ">",
      "?", "@", "A", "B", "C", "D">>[i + 1]

(* The identifier NewMockUserService's loop gives its i-th record. *)
MockUserId(i) ==
    IF i >= 10 THEN "00000000-0000-0000-0000-0000000000" \o Rune(i - 10)
    ELSE "00000000-0000-0000-0000-00000000000" \o Rune(i)

(* NewMockUserService's users at time t: three literal records and the    *)
(* records 4..20 of its loop, with the timestamps the code gives them. The *)
(* live table is taken to hold the same records.                           *)
DayTicks == 24 * 3600 * TicksPerSec

AllIds == <<ID1, ID2, ID3>> \o [i \in 1..17 |-> MockUserId(i + 3)]

NewMockUserService(t) ==
    LET literal == [i \in {ID1, ID2, ID3} |->
                      CASE i = ID1 -> User(ID1, "admin@example.com", "Admin User",
                                           t - 30 * DayTicks, t - 2 * DayTicks)
                        [] i = ID2 -> User(ID2, "user@example.com", "Regular User",
                                           t - 7 * DayTicks, t - DayTicks)
                        [] OTHER -> User(ID3, "test@example.com", "Test User",
                                         t - DayTicks, t)]
        ids == {ID1, ID2, ID3} \cup { MockUserId(i) : i \in 4..20 }
    IN  [id \in ids |->
           IF id \in DOMAIN literal THEN literal[id]
           ELSE LET i == CHOOSE j \in 4..20 : MockUserId(j) = id IN
                User(id, "user" \o Rune(i) \o "@example.com", "User " \o Rune(i),
                     t - i * DayTicks, t - (i \div 2) * DayTicks)]

SeedUsers == NewMockUserService(1)

(* The live issuer and the live resource service read one table, users.    *)
(* The table is outside the program: it is taken to hold the rows of       *)
(* SeedUsers, each with the hash of a password.                            *)
SeedPassword(id) ==
    CASE id = ID1 -> "admin123" [] id = ID2 -> "password123" [] OTHER -> "test123"

SeedCredentials(mock) ==
    IF mock THEN NewMockAuthService
    ELSE [e \in { SeedUsers[i].Email : i \in DOMAIN SeedUsers } |->
            LET i == CHOOSE j \in DOMAIN SeedUsers : SeedUsers[j].Email = e
            IN  [ID |-> i, Password |-> Hashed(SeedPassword(i)), Name |-> SeedUsers[i].Name]]

(* Both services live: the credentials and the records are one table. *)
SharedTable == ~auth.useMock /\ srv.service = "live"

(* The credentials the table holds when its records are us; a password is  *)
(* no column the resource service writes.                                  *)
CredentialsOf(us, old) ==
    [e \in { us[i].Email : i \in DOMAIN us } |->
        LET i == CHOOSE j \in DOMAIN us : us[j].Email = e
            o == CHOOSE x \in DOMAIN old : old[x].ID = i
        IN  [ID |-> i, Password |-> old[o].Password, Name |-> us[i].Name]]

Idle == [op |-> "idle"]
NoToken == [tok |-> EmptyToken, for |-> "", expiresAt |-> 0]

(* The configurations: every environment, the validator's secret equal to  *)
(* the issuer's or not, the issuer live or substitute.                      *)
Init ==
    /\ now = 1
    /\ env \in [USE_MOCK_SERVICES : BOOLEAN, BYPASS_AUTH : BOOLEAN]
    /\ \E secret \in Secrets : srv = NewUserServer(env, secret)
    /\ auth \in [useMock : BOOLEAN, JWTSecret : {"k1"}, JWTExpiration : JWTExpirations]
    /\ authUsers = SeedCredentials(auth.useMock)
    /\ users = SeedUsers
    /\ issued = NoToken
    /\ last = Idle

(* The resource service in every environment, next to an issuer of the    *)
(* same deployment: the same secret, the same USE_MOCK_SERVICES.           *)
InitUsers ==
    /\ Init
    /\ srv.JWTSecret = auth.JWTSecret
    /\ auth.useMock = env.USE_MOCK_SERVICES
    /\ auth.JWTExpiration = 3

----------------------------------------------------------------------------
(* The requests of the model *)

(* A request's token: any text of Tokens, or the token Login handed out. *)
Presented == Tokens \cup (IF issued = NoToken THEN {} ELSE {issued.tok})

(* The authorization values of the resource requests: none, an empty one,  *)
(* a text that is no JWT, and JWTs for each subject: live ones under each  *)
(* secret, an expired one, one without "exp", and the one Login gave.      *)
ReqTokens ==
    {EmptyToken, Malformed}
    \cup { Tok("jwt", "HS256", k, TRUE, s, TRUE, MaxExpSec, 0) : k \in Secrets, s \in Subjects }
    \cup { Tok("jwt", "HS256", "k1", TRUE, ID1, TRUE, 0, 0),
           Tok("jwt", "HS256", "k1", TRUE, ID1, FALSE, 0, 0) }
ReqHeaders ==
    {Absent} \cup { Hdr(TRUE, tok) : tok \in ReqTokens }
    \cup { Hdr(FALSE, tok) : tok \in {EmptyToken, Tok("jwt", "HS256", "k1", TRUE, ID1, TRUE, MaxExpSec, 0)} }

ReqIds == {ID1, ID2, UnknownID}

(* ListUsers: pages and page sizes on both sides of their limits, and the  *)
(* orders in which the map or the table hands out its records.             *)
Reverse(sq) == [i \in 1..Len(sq) |-> sq[Len(sq) + 1 - i]]
ReqPages == {0, 1, 3}
ReqPageSizes == {0, 7, 101}
MapOrders == {AllIds, Reverse(AllIds)}

(* Register: a new email, a seeded one, a text that is no email; a        *)
(* password and one that is too short for the substitute; what uuid.New()  *)
(* gives.                                                                  *)
RegEmails == {"new@example.com", "admin@example.com", "not-an-email", ""}
RegPasswords == {"secret1", "short"}
Uuids == {"3f2504e0-4f89-41d3-9a0c-0305e82c3301", "9b2d7c1a-5e64-4f0b-8a3e-6c1f0d2e4b55"}

(* The callers of the store's specification: nobody, and the owners of the *)
(* first two records.                                                      *)
StoreHeaders ==
    {Absent} \cup { Hdr(TRUE, Tok("jwt", "HS256", "k1", TRUE, i, TRUE, MaxExpSec, 0)) : i \in {ID1, ID2} }

(* Registrations that bring the table from its 20 rows to 25, each with    *)
(* the identifier uuid.New() gave it, and the orders in which 25 records   *)
(* can be handed out.                                                      *)
NewPrincipals ==
    << [email |-> "new1@example.com", uuid |-> "0a1b2c3d-0001-4000-8000-000000000001"],
       [email |-> "new2@example.com", uuid |-> "0a1b2c3d-0002-4000-8000-000000000002"],
       [email |-> "new3@example.com", uuid |-> "0a1b2c3d-0003-4000-8000-000000000003"],
       [email |-> "new4@example.com", uuid |-> "0a1b2c3d-0004-4000-8000-000000000004"],
       [email |-> "new5@example.com", uuid |-> "0a1b2c3d-0005-4000-8000-000000000005"] >>
ListIds == AllIds \o [i \in 1..Len(NewPrincipals) |-> NewPrincipals[i].uuid]
ListOrders == {ListIds, Reverse(ListIds)}
ListPages == {0, 1, 3, 10}
ListPageSizes == {0, 7, 10, 100, 101}

(* Register at the issuer alone: a new email, a seeded one, and two emails *)
(* that differ only in where "@" stands for "-at-".                        *)
IssuerEmails == {"new@example.com", "admin@example.com", "a-at-b@c.io", "a@b-at-c.io"}

(* The page sizes of a client that reads every page. *)
PagingSizes == {7, 10}

(* The emails a registered principal's update carries: its own, and one    *)
(* nobody holds.                                                           *)
JoinEmails == {"new@example.com", "joined@example.com"}

(* The passwords of two registrations that overlap. *)
RacePasswords == {"secret1", "secret2"}

(* The fates of a handler's remote call and of its store: the store is     *)
(* reached only when the call completed.                                   *)
RpcChoices == IF srv.authClient = "grpc" THEN RpcFates ELSE {RpcFine}
DbChoices == IF srv.service = "live" THEN DbFates ELSE {"ok"}
Fates ==
    { <<r, "ok">> : r \in RpcChoices } \cup { <<RpcFine, d>> : d \in DbChoices }

----------------------------------------------------------------------------
(* Actions *)

(* Time passes. *)
Tick ==
    /\ last = Idle
    /\ now < MaxTime
    /\ now' = now + 1
    /\ UNCHANGED <<env, srv, auth, authUsers, users, issued, last>>

(* The response has left: the server takes the next request. *)
Respond ==
    /\ last # Idle
    /\ last' = Idle
    /\ UNCHANGED <<now, env, srv, auth, authUsers, users, issued>>

(* AuthServer.Login *)
Login(email, password, db) ==
    /\ last = Idle
    /\ LET r == AuthServer_Login(email, password, now, db) IN
       /\ last' = [op |-> "Login", email |-> email, password |-> password, db |-> db,
                   at |-> now, status |-> r.status, msg |-> r.msg, Token |-> r.Token,
                   UserId |-> r.UserId, err |-> r.err]
       /\ issued' = IF r.status = "OK"
                    THEN [tok |-> r.Token, for |-> r.UserId,
                          expiresAt |-> now + auth.JWTExpiration]
                    ELSE issued
    /\ UNCHANGED <<now, env, srv, auth, authUsers, users>>

Validation(variant, tok, rpc, status, o) ==
    [op |-> "ValidateToken", variant |-> variant, tok |-> tok, rpc |-> rpc, at |-> now,
     secret |-> IF variant \in {"issuer", "remote"} THEN auth.JWTSecret ELSE srv.JWTSecret,
     status |-> status, out |-> o]

(* A call of the issuer's ValidateToken RPC. *)
ValidateIssuer(tok) ==
    /\ last = Idle
    /\ LET r == AuthServer_ValidateToken(tok, now) IN
       last' = Validation("issuer", tok, RpcFine, r.status,
                          [valid |-> r.Valid, userID |-> r.UserId,
                           err |-> IF r.status = "OK" THEN "nil" ELSE r.status, calls |-> 0])
    /\ UNCHANGED <<now, env, srv, auth, authUsers, users, issued>>

(* A call of the local validator. *)
ValidateLocal(tok) ==
    /\ last = Idle
    /\ last' = Validation("local", tok, RpcFine, "OK", ValidateToken("nil", tok, now, RpcFine))
    /\ UNCHANGED <<now, env, srv, auth, authUsers, users, issued>>

(* A call of the remote validator, when NewUserServer made one. *)
ValidateRemote(tok, rpc) ==
    /\ last = Idle
    /\ srv.authClient = "grpc"
    /\ last' = Validation("remote", tok, rpc, "OK", ValidateToken("grpc", tok, now, rpc))
    /\ UNCHANGED <<now, env, srv, auth, authUsers, users, issued>>

(* A call of the substitute client, when NewUserServer made one. *)
ValidateSubstitute(tok) ==
    /\ last = Idle
    /\ srv.authClient = "mock"
    /\ last' = Validation("substitute", tok, RpcFine, "OK", ValidateToken("mock", tok, now, RpcFine))
    /\ UNCHANGED <<now, env, srv, auth, authUsers, users, issued>>

(* An HTTP request through AuthMiddleware around one of the validators of  *)
(* the process.                                                            *)
HTTPRequest(kind, h, rpc) ==
    /\ last = Idle
    /\ kind \in {"nil", srv.authClient}
    /\ kind = "grpc" \/ rpc = RpcFine
    /\ last' = [op |-> "HTTP", kind |-> kind, hdr |-> h, rpc |-> rpc, at |-> now,
                res |-> AuthMiddleware(kind, h, now, rpc)]
    /\ UNCHANGED <<now, env, srv, auth, authUsers, users, issued>>

Handled(op, h, id, name, email, rpc, db, r) ==
    [op |-> op, hdr |-> h, id |-> id, name |-> name, email |-> email, rpc |-> rpc,
     db |-> db, at |-> now, before |-> users,
     code |-> r.code, gate |-> r.gate, called |-> r.called, user |-> r.user,
     list |-> r.list, total |-> r.total]

GetUser(h, id, rpc, db) ==
    /\ last = Idle
    /\ LET r == UserServer_GetUser(h, id, now, rpc, db) IN
       /\ last' = Handled("GetUser", h, id, "", "", rpc, db, r)
       /\ users' = r.users
    /\ UNCHANGED <<now, env, srv, auth, authUsers, issued>>

UpdateUser(h, id, name, email, rpc, db) ==
    /\ last = Idle
    /\ LET r == UserServer_UpdateUser(h, id, name, email, now, rpc, db) IN
       /\ last' = Handled("UpdateUser", h, id, name, email, rpc, db, r)
       /\ users' = r.users
       /\ authUsers' = IF SharedTable THEN CredentialsOf(r.users, authUsers) ELSE authUsers
    /\ UNCHANGED <<now, env, srv, auth, issued>>

DeleteUser(h, id, rpc, db) ==
    /\ last = Idle
    /\ LET r == UserServer_DeleteUser(h, id, now, rpc, db) IN
       /\ last' = Handled("DeleteUser", h, id, "", "", rpc, db, r)
       /\ users' = r.users
       /\ authUsers' = IF SharedTable THEN CredentialsOf(r.users, authUsers) ELSE authUsers
    /\ UNCHANGED <<now, env, srv, auth, issued>>

ListUsers(h, page, pageSize, order, rpc, db) ==
    /\ last = Idle
    /\ LET r == UserServer_ListUsers(h, page, pageSize, order, now, rpc, db) IN
       last' = [page |-> page, pageSize |-> pageSize, order |-> order]
               @@ Handled("ListUsers", h, "", "", "", rpc, db, r)
    /\ UNCHANGED <<now, env, srv, auth, authUsers, users, issued>>

(* AuthServer.Register; in the live deployment the new row is a record of *)
(* the resource service as well.                                           *)
Register(email, password, name, db, uuid) ==
    /\ last = Idle
    /\ LET r == AuthServer_Register(email, password, name, db, uuid) IN
       /\ last' = [op |-> "Register", email |-> email, password |-> password,
                   name |-> name, db |-> db, at |-> now, before |-> authUsers,
                   status |-> r.status, UserId |-> r.UserId, err |-> r.err]
       /\ authUsers' = r.authUsers
       /\ users' = IF SharedTable /\ r.status = "OK"
                   THEN [i \in DOMAIN users \cup {r.UserId} |->
                           IF i = r.UserId THEN User(r.UserId, email, name, now, now)
                           ELSE users[i]]
                   ELSE users
    /\ UNCHANGED <<now, env, srv, auth, issued>>

(* Two UpdateUser requests at once. The server runs each request in its   *)
(* own goroutine and the substitute store takes no lock, so one request    *)
(* can run between another's test of the email (server.go:399-409, or the  *)
(* repository's GetUserByID) and its write (server.go:411-414, or Save).   *)
(* BeginUpdate is a request up to its test, UpdateUserMeanwhile a whole    *)
(* other request, EndUpdate the write of the first.                        *)
mockUserService_UpdateUser_test(id, email) ==
    IF id \notin DOMAIN users THEN ErrUserNotFound
    ELSE IF \E u \in DOMAIN users : users[u].Email = email /\ users[u].ID # id
    THEN ErrUserAlreadyExists
    ELSE "nil"

(* user.Name = name; user.Email = email; user.UpdatedAt = time.Now() on    *)
(* the record the test found (read): a record deleted meanwhile is no      *)
(* longer in the map, and the write goes to a record nobody reads.         *)
mockUserService_UpdateUser_write(read, name, email, t) ==
    IF read.ID \notin DOMAIN users
    THEN StoreResult("nil", users,
                     [read EXCEPT !.Name = name, !.Email = email, !.UpdatedAt = t])
    ELSE LET u == [users[read.ID] EXCEPT !.Name = name, !.Email = email, !.UpdatedAt = t]
         IN  StoreResult("nil", [users EXCEPT ![read.ID] = u], u)

(* db.Save(user) of gorm on the row GetUserByID read: the unique index on  *)
(* email is tested by the database as it writes; an UPDATE of all columns  *)
(* by primary key, and, when that changes no row, an INSERT of the row.    *)
userRepository_Save(read, name, email, t) ==
    IF \E u \in DOMAIN users : users[u].Email = email /\ u # read.ID
    THEN StoreResult(ErrDatabase, users, NoUser)
    ELSE LET u == [read EXCEPT !.Name = name, !.Email = email, !.UpdatedAt = t]
         IN  StoreResult("nil",
                         [i \in DOMAIN users \cup {read.ID} |->
                             IF i = read.ID THEN u ELSE users[i]],
                         u)

(* The request that ran meanwhile: none yet. *)
NoRequest == [op |-> "", id |-> "", name |-> "", email |-> ""]

BeginUpdate(h, id, name, email) ==
    /\ last = Idle
    /\ LET g == UserServer_authenticateOrBypass(h, now, RpcFine) IN
       /\ g.code = "OK"
       /\ ~(g.userID # id /\ g.userID # "mock-bypass")
       /\ IF srv.service = "mock" THEN mockUserService_UpdateUser_test(id, email) = "nil"
          ELSE id \in DOMAIN users
       /\ last' = [op |-> "Updating", hdr |-> h, id |-> id, name |-> name, email |-> email,
                   at |-> now, before |-> users, credentials |-> authUsers, gate |-> g,
                   other |-> NoRequest]
    /\ UNCHANGED <<now, env, srv, auth, authUsers, users, issued>>

UpdateUserMeanwhile(h, id, name, email) ==
    /\ last # Idle
    /\ last.op = "Updating"
    /\ LET r == UserServer_UpdateUser(h, id, name, email, now, RpcFine, "ok") IN
       /\ r.code = "OK"
       /\ users' = r.users
       /\ authUsers' = IF SharedTable THEN CredentialsOf(r.users, authUsers) ELSE authUsers
       /\ last' = [last EXCEPT !.op = "Overtaken",
                                !.other = [op |-> "UpdateUser", id |-> id, name |-> name,
                                           email |-> email]]
    /\ UNCHANGED <<now, env, srv, auth, issued>>

(* A whole DeleteUser between the test and the write of an UpdateUser. *)
DeleteUserMeanwhile(h, id) ==
    /\ last # Idle
    /\ last.op = "Updating"
    /\ LET r == UserServer_DeleteUser(h, id, now, RpcFine, "ok") IN
       /\ r.code = "OK"
       /\ users' = r.users
       /\ authUsers' = IF SharedTable THEN CredentialsOf(r.users, authUsers) ELSE authUsers
       /\ last' = [last EXCEPT !.op = "Overtaken",
                                !.other = [op |-> "DeleteUser", id |-> id, name |-> "",
                                           email |-> ""]]
    /\ UNCHANGED <<now, env, srv, auth, issued>>

EndUpdate ==
    /\ last # Idle
    /\ last.op \in {"Updating", "Overtaken"}
    /\ LET r == IF srv.service = "mock"
                THEN mockUserService_UpdateUser_write(last.before[last.id], last.name,
                                                      last.email, now)
                ELSE userRepository_Save(last.before[last.id], last.name, last.email, now)
       IN  /\ users' = r.users
           /\ authUsers' = IF SharedTable
                           THEN CredentialsOf(r.users, authUsers @@ last.credentials)
                           ELSE authUsers
           /\ last' = [op |-> "UpdateUser", hdr |-> last.hdr, id |-> last.id,
                       name |-> last.name, email |-> last.email, at |-> now,
                       before |-> last.before, overtaken |-> last.op = "Overtaken",
                       other |-> last.other,
                       code |-> IF r.err = "nil" THEN "OK" ELSE StatusOf(r.err),
                       user |-> r.user]
    /\ UNCHANGED <<now, env, srv, auth, issued>>

(* Two Register requests at once: one request runs whole between another's *)
(* test for the email (mock_service.go:88-101, or UserExists) and its      *)
(* write (mock_service.go:104-111, or CreateUser).                         *)
mockAuthService_Register_test(email, password) ==
    IF ~emailRegex_MatchString(email) THEN ErrInvalidCredentials
    ELSE IF email \in DOMAIN authUsers THEN ErrAuthUserAlreadyExists
    ELSE IF Len(password) < 6 THEN ErrInvalidCredentials
    ELSE "nil"

(* s.users[email] = &mockUser{...}: the map takes the new value whatever   *)
(* it held.                                                                *)
mockAuthService_Register_write(email, password, name) ==
    LET userID == "mock-" \o ReplaceAll_At(email)
    IN  RegisterResult(userID, "nil",
            Extended(authUsers, email,
                     [ID |-> userID, Password |-> Plain(password), Name |-> name]))

(* authRepository.CreateUser: db.Create, which the primary key and the     *)
(* unique index on email can refuse.                                       *)
authRepository_CreateUser(email, password, name, uuid) ==
    IF email \in DOMAIN authUsers \/ (\E e \in DOMAIN authUsers : authUsers[e].ID = uuid)
    THEN RegisterResult("", ErrDatabase, authUsers)
    ELSE RegisterResult(uuid, "nil",
             Extended(authUsers, email,
                      [ID |-> uuid, Password |-> Hashed(password), Name |-> name]))

BeginRegister(email, password, name, uuid) ==
    /\ last = Idle
    /\ email # "" /\ password # "" /\ name # ""
    /\ IF auth.useMock THEN mockAuthService_Register_test(email, password) = "nil"
       ELSE email \notin DOMAIN authUsers
    /\ last' = [op |-> "Registering", email |-> email, password |-> password,
                name |-> name, uuid |-> uuid, db |-> "ok", at |-> now,
                before |-> authUsers, other |-> NoRequest]
    /\ UNCHANGED <<now, env, srv, auth, authUsers, users, issued>>

RegisterMeanwhile(email, password, name, uuid) ==
    /\ last # Idle
    /\ last.op = "Registering"
    /\ LET r == AuthServer_Register(email, password, name, "ok", uuid) IN
       /\ r.status = "OK"
       /\ authUsers' = r.authUsers
       /\ users' = IF SharedTable
                   THEN [i \in DOMAIN users \cup {r.UserId} |->
                           IF i = r.UserId THEN User(r.UserId, email, name, now, now)
                           ELSE users[i]]
                   ELSE users
       /\ last' = [last EXCEPT !.op = "RegisterOvertaken",
                                !.other = [op |-> "Register", id |-> r.UserId, name |-> name,
                                           email |-> email, password |-> password]]
    /\ UNCHANGED <<now, env, srv, auth, issued>>

EndRegister ==
    /\ last # Idle
    /\ last.op \in {"Registering", "RegisterOvertaken"}
    /\ LET r == IF auth.useMock
                THEN mockAuthService_Register_write(last.email, last.password, last.name)
                ELSE authRepository_CreateUser(last.email, last.password, last.name, last.uuid)
       IN  /\ authUsers' = r.authUsers
           /\ users' = IF SharedTable /\ r.err = "nil"
                       THEN [i \in DOMAIN users \cup {r.userID} |->
                               IF i = r.userID
                               THEN User(r.userID, last.email, last.name, now, now)
                               ELSE users[i]]
                       ELSE users
           /\ last' = [op |-> "Register", email |-> last.email, password |-> last.password,
                       name |-> last.name, db |-> "ok", at |-> now, before |-> last.before,
                       overtaken |-> last.op = "RegisterOvertaken", other |-> last.other,
                       status |-> RegisterStatus(r.err), UserId |-> r.userID, err |-> r.err]
    /\ UNCHANGED <<now, env, srv, auth, issued>>

(* Two DeleteUser requests at once: one request runs whole between        *)
(* another's test for the record (server.go:430-432, or the repository's   *)
(* GetUserByID) and its deletion (server.go:434, or db.Delete).            *)
(* delete(s.users, id) of a key the map does not hold does nothing.        *)
mockUserService_DeleteUser_write(id) ==
    StoreResult("nil", [u \in DOMAIN users \ {id} |-> users[u]], NoUser)

(* db.Delete(&User{}, "id = ?", id): RowsAffected == 0 is answered with an *)
(* error that wraps ErrUserNotFound, which userService.DeleteUser finds    *)
(* with errors.Is.                                                         *)
userRepository_Delete(id) ==
    IF id \notin DOMAIN users THEN StoreResult(ErrUserNotFound, users, NoUser)
    ELSE StoreResult("nil", [u \in DOMAIN users \ {id} |-> users[u]], NoUser)

BeginDelete(h, id) ==
    /\ last = Idle
    /\ LET g == UserServer_authenticateOrBypass(h, now, RpcFine) IN
       /\ g.code = "OK"
       /\ ~(g.userID # id /\ g.userID # "mock-bypass")
       /\ id \in DOMAIN users
       /\ last' = [op |-> "Deleting", hdr |-> h, id |-> id, at |-> now, before |-> users,
                   gate |-> g, other |-> NoRequest]
    /\ UNCHANGED <<now, env, srv, auth, authUsers, users, issued>>

DeleteUserOvertaking(h, id) ==
    /\ last # Idle
    /\ last.op = "Deleting"
    /\ LET r == UserServer_DeleteUser(h, id, now, RpcFine, "ok") IN
       /\ r.code = "OK"
       /\ users' = r.users
       /\ authUsers' = IF SharedTable THEN CredentialsOf(r.users, authUsers) ELSE authUsers
       /\ last' = [last EXCEPT !.op = "DeleteOvertaken",
                                !.other = [op |-> "DeleteUser", id |-> id, name |-> "",
                                           email |-> ""]]
    /\ UNCHANGED <<now, env, srv, auth, issued>>

EndDelete ==
    /\ last # Idle
    /\ last.op \in {"Deleting", "DeleteOvertaken"}
    /\ LET r == IF srv.service = "mock" THEN mockUserService_DeleteUser_write(last.id)
                ELSE userRepository_Delete(last.id)
       IN  /\ users' = r.users
           /\ authUsers' = IF SharedTable THEN CredentialsOf(r.users, authUsers) ELSE authUsers
           /\ last' = [op |-> "DeleteUser", hdr |-> last.hdr, id |-> last.id, at |-> now,
                       db |-> "ok", before |-> last.before, gate |-> last.gate,
                       overtaken |-> last.op = "DeleteOvertaken", other |-> last.other,
                       code |-> IF r.err = "nil" THEN "OK" ELSE StatusOf(r.err)]
    /\ UNCHANGED <<now, env, srv, auth, issued>>

(* A client reading the store page by page: ListUsers for page 1, then for *)
(* the next page as long as the total says there is one. Each call ranges  *)
(* over the map, or has the table's rows handed out, in an order of its    *)
(* own.                                                                    *)
FirstPage(h, pageSize, order) ==
    /\ last = Idle
    /\ LET r == UserServer_ListUsers(h, 1, pageSize, order, now, RpcFine, "ok") IN
       /\ r.code = "OK"
       /\ last' = [op |-> "Paging", hdr |-> h, pageSize |-> pageSize, page |-> 1,
                   pages |-> <<r.list>>, total |-> r.total, before |-> users]
    /\ UNCHANGED <<now, env, srv, auth, authUsers, users, issued>>

NextPage(order) ==
    /\ last # Idle
    /\ last.op = "Paging"
    /\ last.page * last.pageSize < last.total
    /\ LET r == UserServer_ListUsers(last.hdr, last.page + 1, last.pageSize, order, now,
                                     RpcFine, "ok")
       IN  /\ r.code = "OK"
           /\ last' = [last EXCEPT !.page = @ + 1, !.pages = Append(@, r.list)]
    /\ UNCHANGED <<now, env, srv, auth, authUsers, users, issued>>

(* os.Setenv in the running process: one of the two mode variables gets   *)
(* another value after the servers were built.                             *)
Setenv(key, value) ==
    /\ last = Idle
    /\ env[key] # value
    /\ env' = [env EXCEPT ![key] = value]
    /\ UNCHANGED <<now, srv, auth, authUsers, users, issued, last>>

----------------------------------------------------------------------------
(* Specifications *)

(* The token subsystem: issuance, the validators, the HTTP middleware. *)
NextTokens ==
    \/ Tick
    \/ Respond
    \/ \E e \in Emails \cup {""}, p \in Passwords \cup {""},
          db \in (IF auth.useMock THEN {"ok"} ELSE {"ok", "read_fails"}) : Login(e, p, db)
    \/ \E tok \in Presented : ValidateIssuer(tok)
    \/ \E tok \in Presented : ValidateLocal(tok)
    \/ \E tok \in Presented, rpc \in RpcFates : ValidateRemote(tok, rpc)
    \/ \E tok \in Presented : ValidateSubstitute(tok)

(* The resource service: its handlers behind the gateway. *)
NextUsers ==
    \/ Respond
    \/ \E kind \in {"nil", "mock", "grpc"}, h \in ReqHeaders, rpc \in RpcFates :
          HTTPRequest(kind, h, rpc)
    \/ \E h \in ReqHeaders, id \in ReqIds, f \in Fates : GetUser(h, id, f[1], f[2])
    \/ \E h \in ReqHeaders, id \in ReqIds, n \in Names, e \in Emails, f \in Fates :
          UpdateUser(h, id, n, e, f[1], f[2])
    \/ \E h \in ReqHeaders, id \in ReqIds, f \in Fates : DeleteUser(h, id, f[1], f[2])
    \/ \E h \in ReqHeaders, p \in ReqPages, ps \in ReqPageSizes, o \in MapOrders, f \in Fates :
          ListUsers(h, p, ps, o, f[1], f[2])

(* The resource service in an environment that changes while it runs. *)
NextEnv ==
    \/ Respond
    \/ \E k \in {"USE_MOCK_SERVICES", "BYPASS_AUTH"}, v \in BOOLEAN : Setenv(k, v)
    \/ \E h \in ReqHeaders, id \in ReqIds, f \in Fates : GetUser(h, id, f[1], f[2])
    \/ \E h \in ReqHeaders, id \in ReqIds, f \in Fates : DeleteUser(h, id, f[1], f[2])

(* The principal store: registrations, logins, updates and deletions. *)
NextStore ==
    \/ Respond
    \/ \E e \in RegEmails, p \in RegPasswords, n \in Names, u \in Uuids,
          db \in (IF auth.useMock THEN {"ok"} ELSE DbFates) : Register(e, p, n, db, u)
    \/ \E e \in {"new@example.com", "admin@example.com"}, p \in {"secret1", "admin123"} :
          Login(e, p, "ok")
    \/ \E h \in StoreHeaders, id \in {ID1, ID2}, n \in Names, e \in Emails, db \in DbChoices :
          UpdateUser(h, id, n, e, RpcFine, db)
    \/ \E h \in StoreHeaders, id \in {ID1, ID2}, db \in DbChoices :
          DeleteUser(h, id, RpcFine, db)

(* The principal store under requests that overlap. *)
NextRace ==
    \/ Respond
    \/ \E h \in StoreHeaders, id \in {ID1, ID2}, n \in Names, e \in Emails :
          BeginUpdate(h, id, n, e)
    \/ \E h \in StoreHeaders, id \in {ID1, ID2}, n \in Names, e \in Emails :
          UpdateUserMeanwhile(h, id, n, e)
    \/ \E h \in StoreHeaders, id \in {ID1, ID2} : DeleteUserMeanwhile(h, id)
    \/ EndUpdate
    \/ \E h \in StoreHeaders, id \in {ID1, ID2}, db \in DbChoices :
          DeleteUser(h, id, RpcFine, db)
    \/ \E e \in RegEmails, p \in RegPasswords, n \in Names, u \in Uuids :
          Register(e, p, n, "ok", u)

(* Reading a store that grows and shrinks. *)
NextList ==
    \/ Respond
    \/ \E i \in 1..Len(NewPrincipals) :
          Register(NewPrincipals[i].email, "secret1", "Renamed", "ok", NewPrincipals[i].uuid)
    \/ \E h \in StoreHeaders, id \in {ID1, ID2} : DeleteUser(h, id, RpcFine, "ok")
    \/ \E h \in StoreHeaders, id \in ReqIds, db \in DbChoices : GetUser(h, id, RpcFine, db)
    \/ \E h \in StoreHeaders, p \in ListPages, ps \in ListPageSizes, o \in ListOrders,
          db \in DbChoices : ListUsers(h, p, ps, o, RpcFine, db)

(* The issuer's registrations and logins. *)
NextRegister ==
    \/ Respond
    \/ \E e \in IssuerEmails, p \in RegPasswords, n \in Names, u \in Uuids,
          db \in (IF auth.useMock THEN {"ok"} ELSE DbFates) : Register(e, p, n, db, u)
    \/ \E e \in IssuerEmails, p \in RegPasswords : Login(e, p, "ok")

(* Registrations that overlap. *)
NextRegisterRace ==
    \/ Respond
    \/ \E e \in {"new@example.com", "admin@example.com"}, p \in RacePasswords, n \in Names,
          u \in Uuids : BeginRegister(e, p, n, u)
    \/ \E e \in {"new@example.com", "a@b-at-c.io"}, p \in RacePasswords, n \in Names,
          u \in Uuids : RegisterMeanwhile(e, p, n, u)
    \/ EndRegister
    \/ \E e \in {"new@example.com", "admin@example.com"}, p \in RacePasswords, n \in Names,
          u \in Uuids : Register(e, p, n, "ok", u)

(* Deletions that overlap, and the reads after them. *)
NextDeleteRace ==
    \/ Respond
    \/ \E h \in StoreHeaders, id \in {ID1, ID2} : BeginDelete(h, id)
    \/ \E h \in StoreHeaders, id \in {ID1, ID2} : DeleteUserOvertaking(h, id)
    \/ EndDelete
    \/ \E h \in StoreHeaders, id \in {ID1, ID2}, db \in DbChoices :
          DeleteUser(h, id, RpcFine, db)
    \/ \E h \in StoreHeaders, id \in {ID1, ID2}, db \in DbChoices :
          GetUser(h, id, RpcFine, db)

(* Reading the store page by page. *)
NextPages ==
    \/ Respond
    \/ \E h \in StoreHeaders, id \in {ID1, ID2} : DeleteUser(h, id, RpcFine, "ok")
    \/ \E h \in StoreHeaders, ps \in PagingSizes, o \in MapOrders : FirstPage(h, ps, o)
    \/ \E o \in MapOrders : NextPage(o)

(* A principal that registers, logs in and comes to the resource service   *)
(* with the token Login gave, for the record of its own identifier.        *)
NextJoin ==
    \/ Respond
    \/ \E p \in RegPasswords, n \in Names, u \in Uuids :
          Register("new@example.com", p, n, "ok", u)
    \/ \E e \in {"new@example.com", "admin@example.com"}, p \in {"secret1", "admin123"} :
          Login(e, p, "ok")
    \/ issued # NoToken /\ GetUser(Hdr(TRUE, issued.tok), issued.for, RpcFine, "ok")
    \/ issued # NoToken /\ \E n \in Names, e \in JoinEmails :
          UpdateUser(Hdr(TRUE, issued.tok), issued.for, n, e, RpcFine, "ok")

(* A token in use while its principal's record is updated and deleted. *)
NextRevoke ==
    \/ Tick
    \/ Respond
    \/ Login("admin@example.com", "admin123", "ok")
    \/ \E h \in StoreHeaders, e \in {"new@example.com"} :
          UpdateUser(h, ID1, "Renamed", e, RpcFine, "ok")
    \/ \E h \in StoreHeaders : DeleteUser(h, ID1, RpcFine, "ok")
    \/ issued # NoToken /\ ValidateIssuer(issued.tok)
    \/ issued # NoToken /\ ValidateLocal(issued.tok)
    \/ issued # NoToken /\ ValidateRemote(issued.tok, RpcFine)
    \/ issued # NoToken /\ ValidateSubstitute(issued.tok)

Next ==
    \/ NextTokens \/ NextUsers \/ NextEnv \/ NextStore \/ NextRace \/ NextList
    \/ NextRegister \/ NextRevoke \/ NextRegisterRace \/ NextDeleteRace \/ NextPages
    \/ NextJoin

SpecTokens == Init /\ [][NextTokens]_vars
SpecUsers == InitUsers /\ [][NextUsers]_vars
SpecEnv == InitUsers /\ [][NextEnv]_vars
SpecStore == InitUsers /\ [][NextStore]_vars
SpecRace == InitUsers /\ [][NextRace]_vars
SpecList == InitUsers /\ [][NextList]_vars
SpecRegister == InitUsers /\ [][NextRegister]_vars
SpecRevoke == InitUsers /\ [][NextRevoke]_vars
SpecRegisterRace == InitUsers /\ [][NextRegisterRace]_vars
SpecDeleteRace == InitUsers /\ [][NextDeleteRace]_vars
SpecPages == InitUsers /\ [][NextPages]_vars
SpecJoin == InitUsers /\ [][NextJoin]_vars
Spec == Init /\ [][Next]_vars

----------------------------------------------------------------------------
(* Properties of the token subsystem (SpecTokens) *)

Validated == last.op = "ValidateToken"
IssuedValidated == Validated /\ issued # NoToken /\ last.tok = issued.tok

(* C1: a token made by generateToken for a registered principal and        *)
(* validated before its expiry by a validator holding the issuer's secret  *)
(* is valid for that principal: in the local validator, in the issuer's    *)
(* ValidateToken, and in the remote validator whenever its call completes. *)
(* With a JWTExpiration of a second or more, the instant of the issuance   *)
(* is before the expiry.                                                   *)
C1_RoundTrip ==
    ( /\ IssuedValidated
      /\ last.variant \in {"local", "remote", "issuer"}
      /\ last.secret = auth.JWTSecret
      /\ RpcCompletes(last.rpc) )
    => ( /\ \E e \in DOMAIN authUsers : authUsers[e].ID = issued.for
         /\ ( /\ auth.JWTExpiration >= TicksPerSec
              /\ last.at = issued.expiresAt - auth.JWTExpiration )
            => BeforeExpiry(last.tok, last.at)
         /\ BeforeExpiry(last.tok, last.at)
            => ( /\ last.out.valid
                 /\ last.out.err = "nil"
                 /\ last.out.userID = issued.for ) )

C1_Witness ==
    /\ IssuedValidated
    /\ last.variant = "remote"
    /\ last.at = issued.expiresAt - auth.JWTExpiration
    /\ last.out.valid
    /\ last.out.userID = issued.for

(* C2: whenever a validator answers valid=true, the token's signature      *)
(* verifies under the validator's secret and the time of the validation    *)
(* is before the token's expiry; a token without expiry is never valid.    *)
C2_ValidOnlyIfSignedAndUnexpired ==
    (Validated /\ last.out.valid)
    => (SignatureVerifies(last.tok, last.secret) /\ BeforeExpiry(last.tok, last.at))

(* C3: a token validated after its expiry is answered valid=false without  *)
(* an error by the local validator, the issuer's ValidateToken and the     *)
(* substitute client: after the "exp" it carries, and, for a token of      *)
(* Login, after the time now + JWTExpiration it was configured with.       *)
Expired ==
    \/ last.tok.form = "jwt" /\ last.tok.hasExp /\ last.at > last.tok.exp * TicksPerSec
    \/ IssuedValidated /\ last.at > issued.expiresAt

C3_ExpiredIsInvalid ==
    (Validated /\ last.variant \in {"local", "issuer", "substitute"} /\ Expired)
    => (~last.out.valid /\ last.out.userID = "" /\ last.out.err = "nil" /\ last.status = "OK")

C3_Witness ==
    /\ IssuedValidated
    /\ last.variant = "issuer"
    /\ last.secret = issued.tok.key
    /\ last.at > issued.expiresAt
    /\ ~last.out.valid
    /\ last.status = "OK"

(* C4: a token signed with another secret than the validator's is          *)
(* answered valid=false, with an empty principal and no error, by every    *)
(* validator (by the remote one whenever its call completes).              *)
C4_WrongSecretIsInvalid ==
    ( /\ Validated
      /\ last.tok.form = "jwt"
      /\ last.tok.key # last.secret
      /\ RpcCompletes(last.rpc) )
    => (~last.out.valid /\ last.out.userID = "" /\ last.out.err = "nil")

C4_Witness ==
    /\ Validated
    /\ last.variant = "local"
    /\ last.tok.form = "jwt" /\ last.tok.alg = "HS256" /\ last.tok.hasSub
    /\ BeforeExpiry(last.tok, last.at)
    /\ last.tok.key # last.secret
    /\ ~last.out.valid

(* C9: the issuer's ValidateToken answers every token with an outcome and  *)
(* never with an error status.                                             *)
C9_IssuerNeverFails ==
    (Validated /\ last.variant = "issuer") => last.status = "OK"

(* C18: a Login with an email and a password that fails, fails the same   *)
(* way for an unknown email and for a wrong password: Authenticate returns *)
(* ErrInvalidCredentials and Login the status Unauthenticated with the     *)
(* message "invalid credentials", in the live and the substitute issuer.   *)
LoginFailed ==
    last.op = "Login" /\ last.email # "" /\ last.password # "" /\ last.status # "OK"

C18_UniformLoginFailure ==
    LoginFailed
    => ( /\ last.err = ErrInvalidCredentials
         /\ last.status = "Unauthenticated"
         /\ last.msg = "invalid credentials"
         /\ last.Token = EmptyToken
         /\ last.UserId = "" )

C18_Witness ==
    /\ LoginFailed
    /\ last.db = "ok"
    /\ auth.useMock
    /\ last.email \notin DOMAIN authUsers
    /\ last.status = "Unauthenticated"

----------------------------------------------------------------------------
(* Properties of the resource service (SpecUsers) *)

HandlerOps == {"GetUser", "UpdateUser", "DeleteUser", "ListUsers"}
Handling == last.op \in HandlerOps
BypassActive == srv.useMockMode /\ env.BYPASS_AUTH

(* C5, as claimed: UpdateUser(id = A) by an authenticated principal B # A  *)
(* is answered PermissionDenied, and by principal A on an existing record  *)
(* A it succeeds and returns the updated record (the store answering).     *)
C5_AsClaimed ==
    (last.op = "UpdateUser" /\ last.gate.code = "OK" /\ last.db = "ok")
    => ( /\ last.gate.userID # last.id => last.code = "PermissionDenied"
         /\ (last.gate.userID = last.id /\ last.id \in DOMAIN last.before)
            => last.code = "OK" )

EmailTaken ==
    \E u \in DOMAIN last.before : u # last.id /\ last.before[u].Email = last.email

(* C5, amended: UpdateUser(id = A) by an authenticated principal B that is *)
(* neither A nor the bypass sentinel is answered PermissionDenied and      *)
(* changes nothing; by principal A on an existing record A, with an email  *)
(* no other record holds and the store answering, it succeeds, returns     *)
(* the updated record and stores it.                                       *)
C5_OwnershipUpdate ==
    (last.op = "UpdateUser" /\ last.gate.code = "OK")
    => ( /\ (last.gate.userID # last.id /\ last.gate.userID # BypassSentinel)
            => (last.code = "PermissionDenied" /\ users = last.before)
         /\ ( /\ last.gate.userID = last.id
              /\ last.id \in DOMAIN last.before
              /\ ~EmailTaken
              /\ last.db = "ok" )
            => ( /\ last.code = "OK"
                 /\ last.user = [last.before[last.id] EXCEPT !.Name = last.name,
                                    !.Email = last.email, !.UpdatedAt = last.at]
                 /\ users = [last.before EXCEPT ![last.id] = last.user] ) )

C5_Witness ==
    /\ last.op = "UpdateUser"
    /\ last.gate.invoked
    /\ last.gate.userID = last.id
    /\ last.code = "OK"
    /\ users[last.id].Email = last.email
    /\ last.before[last.id].Email # last.email

(* C6: DeleteUser(id = A) by an authenticated principal that is neither A  *)
(* nor the bypass sentinel is answered PermissionDenied and leaves the     *)
(* store, record A included, as it was; by principal A on an existing      *)
(* record A, the store answering, it succeeds and removes the record.      *)
C6_OwnershipDelete ==
    (last.op = "DeleteUser" /\ last.gate.code = "OK")
    => ( /\ (last.gate.userID # last.id /\ last.gate.userID # BypassSentinel)
            => (last.code = "PermissionDenied" /\ users = last.before)
         /\ (last.gate.userID = last.id /\ last.id \in DOMAIN last.before /\ last.db = "ok")
            => (last.code = "OK" /\ last.id \notin DOMAIN users) )

C6_Witness ==
    /\ last.op = "DeleteUser"
    /\ last.gate.invoked
    /\ last.gate.userID # last.id
    /\ last.id \in DOMAIN last.before
    /\ last.code = "PermissionDenied"
    /\ last.id \in DOMAIN users

(* C7: the gateway answers a validator error with Internal (HTTP 500) and  *)
(* valid=false with Unauthenticated (HTTP 401), and lets a request pass    *)
(* the validation only on valid=true, with the validator's principal.      *)
C7_GatewayMapping ==
    /\ (Handling /\ ~BypassActive)
       => ( /\ (last.gate.invoked /\ last.gate.v.err # "nil") => last.code = "Internal"
            /\ (last.gate.invoked /\ last.gate.v.err = "nil" /\ ~last.gate.v.valid)
               => last.code = "Unauthenticated"
            /\ last.gate.code = "OK"
               => ( /\ last.gate.invoked
                    /\ last.gate.v.valid
                    /\ last.gate.v.err = "nil"
                    /\ last.gate.userID = last.gate.v.userID ) )
    /\ last.op = "HTTP"
       => ( /\ (last.res.invoked /\ last.res.v.err # "nil")
               => (last.res.status = 500 /\ ~last.res.next)
            /\ (last.res.invoked /\ last.res.v.err = "nil" /\ ~last.res.v.valid)
               => (last.res.status = 401 /\ ~last.res.next)
            /\ last.res.next
               => ( /\ last.res.invoked
                    /\ last.res.v.valid
                    /\ last.res.v.err = "nil"
                    /\ last.res.userID = last.res.v.userID ) )

C7_Witness ==
    /\ Handling
    /\ last.gate.invoked
    /\ last.gate.v.err # "nil"
    /\ last.code = "Internal"

(* C8: a request without authorization value, or whose token is the empty  *)
(* string, is answered Unauthenticated without any call of a validator.    *)
C8_EmptyTokenNotValidated ==
    (Handling /\ ~BypassActive /\ (~last.hdr.present \/ last.hdr.tok.form = "empty"))
    => (~last.gate.invoked /\ last.code = "Unauthenticated")

(* C10: the remote validator makes exactly one call; when the call does    *)
(* not complete within the timeout, or the transport fails, its outcome is *)
(* an error, and the gateway answers Internal (HTTP 500) and leaves the    *)
(* store alone.                                                            *)
C10_RemoteTimeout ==
    /\ (Handling /\ last.gate.invoked /\ srv.authClient = "grpc")
       => ( /\ last.gate.v.calls = 1
            /\ ~RpcCompletes(last.rpc)
               => (last.gate.v.err # "nil" /\ last.code = "Internal" /\ users = last.before) )
    /\ (last.op = "HTTP" /\ last.res.invoked /\ last.kind = "grpc")
       => ( /\ last.res.v.calls = 1
            /\ ~RpcCompletes(last.rpc) => (last.res.v.err # "nil" /\ last.res.status = 500) )

C10_Witness ==
    /\ Handling
    /\ srv.authClient = "grpc"
    /\ last.rpc.transport = "ok"
    /\ last.rpc.latency > RemoteTimeoutSec
    /\ last.gate.v.calls = 1
    /\ last.code = "Internal"

C12_NoBypassWithoutSubstitutes ==
    (Handling /\ ~srv.useMockMode)
    => ( /\ last.gate.userID # BypassSentinel
         /\ last.gate.code = "OK"
            => (last.hdr.present /\ last.gate.invoked /\ srv.authClient = "grpc") )

(* C16: outside bypass mode the principal the gateway returns is never the *)
(* sentinel, and an accepted UpdateUser or DeleteUser for a record with    *)
(* another id than the principal's is answered PermissionDenied.           *)
C16_SentinelNeverValidated ==
    (Handling /\ ~BypassActive /\ last.gate.code = "OK")
    => ( /\ last.gate.v.userID # BypassSentinel
         /\ (last.op \in {"UpdateUser", "DeleteUser"} /\ last.id # last.gate.userID)
            => last.code = "PermissionDenied" )

(* C13, as claimed: with substitute mode and bypass both active, every     *)
(* request without authorization value is authenticated as the sentinel,   *)
(* and UpdateUser and DeleteUser on an existing record pass the ownership  *)
(* test and perform the mutation.                                          *)
C13_AsClaimed ==
    (Handling /\ BypassActive /\ ~last.hdr.present)
    => ( /\ last.gate.code = "OK"
         /\ last.gate.userID = BypassSentinel
         /\ (last.op \in {"UpdateUser", "DeleteUser"} /\ last.id \in DOMAIN last.before)
            => (last.code = "OK" /\ users # last.before) )

(* C13, amended: with substitute mode and bypass both active, every        *)
(* request without authorization value is authenticated as the sentinel    *)
(* without a validator being called; UpdateUser and DeleteUser are never   *)
(* answered PermissionDenied; DeleteUser of an existing record removes it, *)
(* and UpdateUser of an existing record, with an email no other record     *)
(* holds, stores the new name and email.                                   *)
C13_BypassScenario ==
    (Handling /\ BypassActive /\ ~last.hdr.present)
    => ( /\ last.gate.code = "OK"
         /\ last.gate.userID = BypassSentinel
         /\ ~last.gate.invoked
         /\ last.called
         /\ last.code # "PermissionDenied"
         /\ (last.op = "DeleteUser" /\ last.id \in DOMAIN last.before)
            => ( /\ last.code = "OK"
                 /\ users = [u \in DOMAIN last.before \ {last.id} |-> last.before[u]] )
         /\ (last.op = "UpdateUser" /\ last.id \in DOMAIN last.before /\ ~EmailTaken)
            => ( /\ last.code = "OK"
                 /\ users = [last.before EXCEPT ![last.id] = last.user]
                 /\ last.user.Name = last.name
                 /\ last.user.Email = last.email ) )

C13_Witness ==
    /\ last.op = "DeleteUser"
    /\ BypassActive
    /\ ~last.hdr.present
    /\ last.gate.userID = BypassSentinel
    /\ last.id \in DOMAIN last.before
    /\ last.id \notin DOMAIN users

(* C14: with substitute mode active and bypass inactive, a request without *)
(* authorization value is answered Unauthenticated, and the service (the   *)
(* store) is not called: nothing is read, nothing is changed.              *)
C14_NoHeaderRejected ==
    (Handling /\ srv.useMockMode /\ ~env.BYPASS_AUTH /\ ~last.hdr.present)
    => ( /\ last.code = "Unauthenticated"
         /\ ~last.called
         /\ users = last.before
         /\ last.user = NoUser
         /\ last.list = <<>> )

C14_Witness ==
    /\ last.op = "ListUsers"
    /\ srv.useMockMode
    /\ ~env.BYPASS_AUTH
    /\ ~last.hdr.present
    /\ last.code = "Unauthenticated"

----------------------------------------------------------------------------
(* Properties of the mode configuration (SpecEnv) *)

(* NewUserServer makes no client exactly when it finds substitute mode and *)
(* bypass both set: what the process was started with.                     *)
StartedInBypass == srv.useMockMode /\ srv.authClient = "nil"

Bypassed == last.gate.code = "OK" /\ ~last.gate.invoked

(* C15: the mode is read once, at the start: a request is let through as   *)
(* the sentinel, without validation, exactly in a process that was started *)
(* in bypass mode, whatever the environment holds later.                   *)
C15_ModeReadOnce ==
    Handling => (Bypassed = StartedInBypass)

----------------------------------------------------------------------------
(* Properties of the principal store (SpecStore) *)

(* C17: a Register with all fields set, for an email that is registered    *)
(* already, is answered AlreadyExists when the store answers, and leaves   *)
(* the credential store, the principal of the first registration in it,    *)
(* as it was.                                                              *)
C17_RegisterTwice ==
    ( /\ last.op = "Register"
      /\ last.email # "" /\ last.password # "" /\ last.name # ""
      /\ last.email \in DOMAIN last.before
      /\ last.db = "ok" )
    => ( /\ last.status = "AlreadyExists"
         /\ last.UserId = ""
         /\ authUsers = last.before )

C17_Witness ==
    /\ last.op = "Register"
    /\ last.email = "new@example.com"
    /\ last.email \in DOMAIN last.before
    /\ last.password # last.before[last.email].Password.of
    /\ last.status = "AlreadyExists"
    /\ authUsers[last.email] = last.before[last.email]

(* C19: an UpdateUser that reaches the store, for an existing record and   *)
(* an email another record holds, is answered AlreadyExists and changes no *)
(* record.                                                                 *)
C19_DuplicateEmailOnUpdate ==
    ( /\ last.op = "UpdateUser"
      /\ last.called
      /\ last.db = "ok"
      /\ last.id \in DOMAIN last.before
      /\ EmailTaken )
    => (last.code = "AlreadyExists" /\ users = last.before)

(* C20: no two records of the resource service's store, and no two         *)
(* principals of the credential store, have one email, whatever Register,  *)
(* UpdateUser and DeleteUser requests ran, one after the other or at once.  *)
C20_EmailUnique ==
    /\ \A i, j \in DOMAIN users : users[i].Email = users[j].Email => i = j
    /\ \A e, f \in DOMAIN authUsers : authUsers[e].ID = authUsers[f].ID => e = f

(* What mockUserService.UpdateUser(id, name, email) at time t leaves of a   *)
(* store us when nothing else runs.                                        *)
AloneUpdated(us, id, name, email, t) ==
    IF id \notin DOMAIN us THEN us
    ELSE IF \E u \in DOMAIN us : us[u].Email = email /\ us[u].ID # id THEN us
    ELSE [us EXCEPT ![id] = [@ EXCEPT !.Name = name, !.Email = email, !.UpdatedAt = t]]

Overtaken == last.op = "UpdateUser" /\ "overtaken" \in DOMAIN last /\ last.overtaken
Overlapped == Overtaken /\ last.other.op = "UpdateUser"

(* C21: the substitute store after two UpdateUser requests that overlapped *)
(* is the store after the two requests in one of the two orders.           *)
C21_SubstituteSerializes ==
    (Overlapped /\ srv.service = "mock")
    => LET a == last
           b == last.other
       IN  \/ users = AloneUpdated(AloneUpdated(a.before, a.id, a.name, a.email, a.at),
                                   b.id, b.name, b.email, a.at)
           \/ users = AloneUpdated(AloneUpdated(a.before, b.id, b.name, b.email, a.at),
                                   a.id, a.name, a.email, a.at)

----------------------------------------------------------------------------
(* Properties of the error taxonomy *)

(* The status a handler of UserServer makes of its service's error. *)
HandlerStatus(err) == IF err = "nil" THEN "OK" ELSE StatusOf(err)

(* C22: on one store, with a database that answers, the substitute and the *)
(* live service give the caller the same status: for Register with an      *)
(* email the store does not hold, for UpdateUser (an email held by another *)
(* record included), for GetUser and DeleteUser (an unknown id included).  *)
C22_SameTaxonomy ==
    /\ \A e \in RegEmails, p \in RegPasswords, n \in Names, u \in Uuids :
          (e # "" /\ e \notin DOMAIN authUsers /\ \A f \in DOMAIN authUsers : authUsers[f].ID # u)
          => RegisterStatus(mockAuthService_Register(e, p, n).err)
             = RegisterStatus(authService_Register(e, p, n, "ok", u).err)
    /\ \A id \in ReqIds, n \in Names, e \in Emails :
          HandlerStatus(mockUserService_UpdateUser(id, n, e, now).err)
          = HandlerStatus(userService_UpdateUser(id, n, e, now, "ok").err)
    /\ \A id \in ReqIds :
          /\ HandlerStatus(mockUserService_GetUser(id).err)
             = HandlerStatus(userService_GetUser(id, "ok").err)
          /\ HandlerStatus(mockUserService_DeleteUser(id).err)
             = HandlerStatus(userService_DeleteUser(id, "ok").err)

(* The failures the design names. *)
Taxonomy == {"Unauthenticated", "AlreadyExists", "NotFound", "PermissionDenied", "Internal"}

(* C23: the status of every answer of Login, Register, the issuer's        *)
(* ValidateToken, GetUser, UpdateUser, DeleteUser and ListUsers is OK or   *)
(* one of the failures of the taxonomy.                                    *)
C23_OnlyTaxonomy ==
    /\ ( \/ last.op \in {"Login", "Register"}
         \/ (last.op = "ValidateToken" /\ last.variant = "issuer") )
       => last.status \in Taxonomy \cup {"OK"}
    /\ (last.op \in HandlerOps /\ "code" \in DOMAIN last)
       => last.code \in Taxonomy \cup {"OK"}

(* C24: a Login during which the credential store fails to answer the      *)
(* lookup of the email is answered Internal.                               *)
C24_StoreFaultIsInternal ==
    ( /\ last.op = "Login"
      /\ last.email # "" /\ last.password # ""
      /\ last.db = "read_fails" )
    => last.status = "Internal"

----------------------------------------------------------------------------
(* Properties of ListUsers (SpecList) *)

Min(a, b) == IF a < b THEN a ELSE b
Max(a, b) == IF a < b THEN b ELSE a

ListedOK == last.op = "ListUsers" /\ last.code = "OK"

(* C25: a ListUsers that is answered, with page >= 1 and pageSize in       *)
(* 1..100, over a store of N records gives total = N and                   *)
(* min(pageSize, max(0, N - (page - 1) * pageSize)) items.                 *)
C25_PaginationCounts ==
    ( /\ ListedOK
      /\ last.page >= 1
      /\ last.pageSize >= 1 /\ last.pageSize <= 100 )
    => LET N == Cardinality(DOMAIN users) IN
       /\ last.total = N
       /\ Len(last.list) = Min(last.pageSize, Max(0, N - (last.page - 1) * last.pageSize))

C25_Witness ==
    /\ ListedOK
    /\ Cardinality(DOMAIN users) = 25
    /\ last.page = 3 /\ last.pageSize = 10
    /\ Len(last.list) = 5
    /\ last.total = 25

(* C26: a ListUsers that is answered, in the live and in the substitute    *)
(* service alike, pages with page 1 when page < 1 and with a page size of  *)
(* 10 when pageSize is outside 1..100: its offset is not negative and it   *)
(* gives the items of that page, never more than 100.                      *)
C26_ListNormalises ==
    ListedOK
    => LET N == Cardinality(DOMAIN users)
           page == IF last.page < 1 THEN 1 ELSE last.page
           pageSize == IF last.pageSize < 1 \/ last.pageSize > 100 THEN 10 ELSE last.pageSize
           offset == (page - 1) * pageSize
       IN  /\ offset >= 0
           /\ last.total = N
           /\ Len(last.list) = Min(pageSize, Max(0, N - offset))
           /\ Len(last.list) <= 100

C26_Witness ==
    /\ ListedOK
    /\ srv.service = "mock"
    /\ last.page = 0 /\ last.pageSize = 101
    /\ Len(last.list) = 10
    /\ last.total = 20

----------------------------------------------------------------------------
(* Properties of the reads and of rejected requests (SpecUsers) *)

(* C27: GetUser and ListUsers are served to whoever the gateway let        *)
(* through, and to nobody else: with a store that answers, any record that *)
(* exists and any page is given whatever the principal is, never           *)
(* PermissionDenied; and neither request changes the store.                *)
C27_ReadsNeedOnlyAuthentication ==
    (last.op \in {"GetUser", "ListUsers"})
    => /\ users = last.before
       /\ last.code = "OK" => last.gate.code = "OK"
       /\ last.code # "PermissionDenied"
       /\ last.gate.code = "OK"
          => /\ last.called
             /\ (last.db = "ok" /\ last.op = "ListUsers") => last.code = "OK"
             /\ (last.db = "ok" /\ last.op = "GetUser" /\ last.id \in DOMAIN users)
                => (last.code = "OK" /\ last.user = users[last.id])

C27_Witness ==
    /\ last.op = "GetUser"
    /\ last.gate.userID = ID2
    /\ last.id = ID1
    /\ last.code = "OK"
    /\ last.user.ID = ID1

----------------------------------------------------------------------------
(* Properties of the issuer's registrations (SpecRegister) *)

(* C28: two principals of the credential store with different emails have  *)
(* different identifiers, whatever registrations succeeded.                *)
C28_IdentifiersUnique ==
    \A e, f \in DOMAIN authUsers : e # f => authUsers[e].ID # authUsers[f].ID

----------------------------------------------------------------------------
(* Properties of a token in use (SpecRevoke) *)

(* C29: a token of Login is valid for the principal it was made for at     *)
(* every validation before its expiry, and only then, whatever UpdateUser  *)
(* and DeleteUser did to the principal's record since the Login.           *)
C29_NotRevocable ==
    (IssuedValidated /\ RpcCompletes(last.rpc))
    => ( (last.out.valid /\ last.out.userID = issued.for /\ last.out.err = "nil")
         <=> BeforeExpiry(last.tok, last.at) )

C29_Witness ==
    /\ IssuedValidated
    /\ last.variant = "issuer"
    /\ issued.for \notin DOMAIN users
    /\ ~(\E e \in DOMAIN authUsers : authUsers[e].ID = issued.for)
    /\ last.out.valid
    /\ last.out.userID = issued.for
    /\ last.at > issued.expiresAt - auth.JWTExpiration

(* C30: a GetUser, UpdateUser, DeleteUser or ListUsers that is answered    *)
(* Unauthenticated, PermissionDenied, or Internal by the gateway, did not  *)
(* call the service, and the store is as it was.                           *)
C30_RejectedHasNoEffect ==
    ( /\ last.op \in HandlerOps
      /\ \/ last.code \in {"Unauthenticated", "PermissionDenied"}
         \/ (last.code = "Internal" /\ last.gate.code = "Internal") )
    => (~last.called /\ users = last.before)

C30_Witness ==
    /\ last.op = "DeleteUser"
    /\ last.code = "PermissionDenied"
    /\ last.id \in DOMAIN last.before
    /\ ~last.called
    /\ users = last.before

(* C31: an UpdateUser or DeleteUser by an authenticated principal that is   *)
(* neither the requested id nor the sentinel is answered PermissionDenied  *)
(* without a call of the store, whether the record exists or not; NotFound *)
(* is answered only to the owner or the sentinel.                          *)
C31_OwnershipBeforeExistence ==
    (last.op \in {"UpdateUser", "DeleteUser"})
    => /\ ( /\ last.gate.code = "OK"
            /\ last.gate.userID # last.id
            /\ last.gate.userID # BypassSentinel )
          => (last.code = "PermissionDenied" /\ ~last.called)
       /\ last.code = "NotFound"
          => ( /\ last.gate.code = "OK"
               /\ last.gate.userID \in {last.id, BypassSentinel} )

C31_Witness ==
    /\ last.op = "UpdateUser"
    /\ last.gate.code = "OK"
    /\ last.gate.userID = ID1
    /\ last.id = UnknownID
    /\ last.id \notin DOMAIN last.before
    /\ last.code = "PermissionDenied"

----------------------------------------------------------------------------
(* Properties of requests that overlap (SpecRace) *)

(* C32: in the live repository, an UpdateUser that read its row before a   *)
(* DeleteUser of the same id succeeded leaves the row deleted.             *)
C32_DeletedStaysDeleted ==
    ( /\ Overtaken
      /\ srv.service = "live"
      /\ last.other.op = "DeleteUser"
      /\ last.other.id = last.id )
    => last.id \notin DOMAIN users

(* C33: of two Register requests for one email the store did not hold,     *)
(* the one that finds the other's principal written is answered            *)
(* AlreadyExists, and the principal stays as the other request made it.    *)
C33_ConcurrentRegister ==
    ( /\ last.op = "Register"
      /\ "overtaken" \in DOMAIN last
      /\ last.overtaken
      /\ last.other.email = last.email )
    => /\ last.status = "AlreadyExists"
       /\ authUsers[last.email].ID = last.other.id
       /\ authUsers[last.email].Password.of = last.other.password

(* C34: a DeleteUser by the owner that reaches a store that answers is      *)
(* answered OK when the record was there and NotFound when it was not, and *)
(* the record is gone afterwards; of two such requests that overlap, the   *)
(* one that finds the record deleted by the other is answered NotFound;    *)
(* and a GetUser of a record that is gone is answered NotFound.            *)
C34_DeleteOnce ==
    /\ ( /\ last.op = "DeleteUser"
         /\ "called" \in DOMAIN last
         /\ last.called
         /\ last.db = "ok" )
       => /\ last.code = (IF last.id \in DOMAIN last.before THEN "OK" ELSE "NotFound")
          /\ last.id \notin DOMAIN users
    /\ ( /\ last.op = "DeleteUser"
         /\ "overtaken" \in DOMAIN last
         /\ last.overtaken
         /\ last.other.id = last.id )
       => (last.code = "NotFound" /\ last.id \notin DOMAIN users)
    /\ ( /\ last.op = "GetUser"
         /\ last.called
         /\ last.db = "ok"
         /\ last.id \notin DOMAIN users )
       => last.code = "NotFound"

----------------------------------------------------------------------------
(* Properties of paging (SpecPages) *)

IdsOf(list) == { list[i].ID : i \in 1..Len(list) }

AllPagesRead ==
    /\ last.op = "Paging"
    /\ last.page * last.pageSize >= last.total

(* C35: the pages 1..ceil(N / pageSize) that successive ListUsers calls    *)
(* give of a store that does not change are pairwise disjoint, and every   *)
(* record of the store is on one of them.                                  *)
C35_PagesPartition ==
    AllPagesRead
    => /\ \A i, j \in 1..Len(last.pages) :
             i # j => IdsOf(last.pages[i]) \cap IdsOf(last.pages[j]) = {}
       /\ UNION { IdsOf(last.pages[i]) : i \in 1..Len(last.pages) } = DOMAIN users

----------------------------------------------------------------------------
(* Properties of a registered principal at the resource service (SpecJoin) *)

(* The request is the registered principal's, for its own identifier, with *)
(* the token Login gave it.                                                *)
JoinedAsks(op) ==
    /\ last.op = op
    /\ issued # NoToken
    /\ issued.for \notin DOMAIN SeedUsers
    /\ last.hdr = Hdr(TRUE, issued.tok)
    /\ last.id = issued.for

(* C36: in substitute mode, a principal that Register created and Login    *)
(* gave a token to is a record of the resource service: GetUser of its     *)
(* identifier with that token returns it, and its UpdateUser succeeds.     *)
C36_RegisteredIsARecord ==
    env.USE_MOCK_SERVICES
    => /\ JoinedAsks("GetUser") => (last.code = "OK" /\ last.user.ID = issued.for)
       /\ JoinedAsks("UpdateUser") => last.code = "OK"

----------------------------------------------------------------------------
(* The frame of the substitute store's UpdateUser (SpecUsers) *)

(* The request reached mockUserService.UpdateUser. *)
SubstituteUpdated ==
    /\ last.op = "UpdateUser"
    /\ srv.service = "mock"
    /\ last.called

(* C37: when mockUserService.UpdateUser returns an error, for an unknown   *)
(* id or an email another record holds, the store is what it was; when it  *)
(* succeeds, the target record has the request's name and email and the    *)
(* time of the call as its last update, its identifier and creation time   *)
(* are what they were, and so is every other record.                       *)
C37_FailedUpdateIsAtomic ==
    SubstituteUpdated
    => IF last.code # "OK"
       THEN users = last.before
       ELSE /\ DOMAIN users = DOMAIN last.before
            /\ \A i \in DOMAIN users \ {last.id} : users[i] = last.before[i]
            /\ users[last.id] =
                  User(last.before[last.id].ID, last.email, last.name,
                       last.before[last.id].CreatedAt, last.at)

(* The owner of an existing record asked for an email another record holds *)
(* and was refused.                                                        *)
C37_Witness ==
    /\ SubstituteUpdated
    /\ last.code # "OK"
    /\ last.id \in DOMAIN last.before
    /\ EmailTaken
    /\ last.before[last.id].Name # last.name
    /\ users = last.before

====
